---------------------------- MODULE Spec2Model ----------------------------
(***************************************************************************)
(* A model of the bubble-scoped variant caller of rs-gfa-utils (gfa2vcf):  *)
(* path materialisation (gfa_path_data), the bubble index                  *)
(* (bubble_path_indices), sub-path extraction (path_data_sub_paths), the   *)
(* pairwise diff walk (detect_variants_against_ref), the per-bubble        *)
(* orchestration (detect_variants_in_sub_paths), record assembly           *)
(* (variant_vcf_record) and the final sort/dedup of gfa2vcf.               *)
(*                                                                         *)
(* Conventions.  A byte string (BString) is a sequence of one-letter       *)
(* strings.  A hash map is a function whose DOMAIN is its key set.  Vec    *)
(* indices are 0-based in the source and are kept 0-based in the state;    *)
(* the sequences that hold the Vecs are 1-based, so element i of the       *)
(* source is element i+1 here.  A PathStep is the tuple                    *)
(* <<node, offset, orientation>>.  A panic (a failed unwrap) is the        *)
(* outcome "panic", distinct from a returned error.                        *)
(***************************************************************************)
EXTENDS Integers, Sequences, FiniteSets, TLC

VARIABLES
    segment_map,     \* PathData.segment_map: node id -> sequence
    ref_name,        \* diff walk: name of the reference path
    ref_path,        \* diff walk: reference sub-path (steps)
    query_path,      \* diff walk: query sub-path (steps)
    gfa_paths,       \* gfa.paths: the raw paths [path_name, steps] of the input
    mapped,          \* gfa_path_data: results of the parallel map, by path index
    path_names,      \* PathData.path_names
    paths,           \* PathData.paths
    pd_status,       \* gfa_path_data: "idle", "mapping", "done" or "panic"
    vertices,        \* bubble_path_indices: the boundary node ids
    transposed,      \* bubble_path_indices: path index -> (node -> step index)
    path_map,        \* bubble_path_indices: node -> (path index -> step index)
    idx_status,      \* bubble_path_indices: "idle", "paths", "nodes" or "done"
    walk,            \* diff walk: [ref_ix, query_ix, variants, status] and, for
                     \* the properties, what the last iteration did (last_op)
                     \* and the (key, variant) it inserted (emitted)
    var_config,      \* VariantConfig.ignore_inverted_paths
    ref_path_names,  \* the reference allow-list: None or Some(set of names)
    bubble,          \* detect_variants_in_sub_paths: the locals of one call
    ultrabubbles,    \* gfa2vcf: the list of (from, to) bubbles
    batches,         \* gfa2vcf: bubble index -> the records of that bubble
    all_vcf_records, \* gfa2vcf: the record list
    stdout,          \* gfa2vcf: the lines printed so far
    cmd_status       \* gfa2vcf: "idle", "start", "path_data", "bubbles",
                     \* "sorted", "header", "done", "panic" or "error"

diff_vars == <<ref_name, ref_path, query_path, walk>>

pd_vars == <<gfa_paths, mapped, path_names, paths, pd_status>>

idx_vars == <<vertices, transposed, path_map, idx_status>>

orch_vars == <<var_config, ref_path_names, bubble>>

cmd_vars == <<ultrabubbles, batches, all_vcf_records, stdout, cmd_status>>

vars == <<segment_map, diff_vars, pd_vars, idx_vars, orch_vars, cmd_vars>>

---------------------------------------------------------------------------
(* Bounds of the model *)

\* longest reference / query sub-path handed to the diff walk
MaxLen == 3

\* most distinct nodes on a reference / query pair
MaxNode == 4

\* most paths of a graph whose materialisation and indexing are explored
MaxPaths == 2

\* most steps of one such path
MaxSteps == 2

\* most distinct nodes on the paths of such a graph
MaxSegs == 2

\* nodes of the backbone path of a haplotype graph
BackboneLen == 4

\* the steps of two sub-paths together up to which every orientation of
\* every step is tried
MaxOrientedLen == 4

\* most bubbles of one run of gfa2vcf
MaxBubbles == 2

\* the sequences a segment may carry: empty, one byte, two bytes
SeqPool == {<<>>, <<"A">>, <<"C">>, <<"A", "C">>}

\* one sequence of each length, where only the length is read
LenPool == {<<>>, <<"A">>, <<"A", "C">>}

Orientations == {"Forward", "Backward"}

\* the names of the paths of an input graph, in file order
PathNames == <<"a", "b", "c">>

---------------------------------------------------------------------------
(* Generic helpers *)

Max(S) == CHOOSE x \in S : \A y \in S : y <= x

Min(a, b) == IF a <= b THEN a ELSE b

\* the least element of a set of numbers
MinOf(S) == CHOOSE x \in S : \A y \in S : x <= y

Last(s) == s[Len(s)]

EmptyMap == [k \in {} |-> {}]

\* HashMap::insert of one (key, value): the value of an existing key is replaced
MapInsert(m, k, v) == [x \in (DOMAIN m) \cup {k} |-> IF x = k THEN v ELSE m[x]]

\* variants.entry(var_key).or_default().insert(variant)
EntryInsert(m, k, variant) ==
    MapInsert(m, k, (IF k \in DOMAIN m THEN m[k] ELSE {}) \cup {variant})

---------------------------------------------------------------------------
(* Variant keys and variants *)

VariantKey(name, pos, sequence) ==
    [ref_name |-> name, sequence |-> sequence, pos |-> pos]

\* Variant::Del(BString)
Del(seq) == [tag |-> "Del", seq |-> seq]
\* Variant::Ins(BString)
Ins(seq) == [tag |-> "Ins", seq |-> seq]
\* Variant::Snv(u8): the byte is held as a one-letter sequence
Snv(base) == [tag |-> "Snv", seq |-> <<base>>]
\* Variant::Mnp(BString)
Mnp(seq) == [tag |-> "Mnp", seq |-> seq]

---------------------------------------------------------------------------
(* Path Materializer: the scan closure of gfa_path_data *)

\* the raw steps of a GFA path are <<node, orientation>> pairs; the scan
\* starts at offset 1 and adds the length of each step's segment sequence
RECURSIVE ScanSteps(_, _, _, _)
ScanSteps(segs, raw, i, offset) ==
    IF i > Len(raw) THEN <<>>
    ELSE LET step == raw[i][1]
             orient == raw[i][2]
             step_offset == offset
             step_len == Len(segs[step])
         IN  <<<<step, step_offset, orient>>>>
                 \o ScanSteps(segs, raw, i + 1, offset + step_len)

\* segment_map.get(&step).unwrap() fails for some step of the path
MissingNode(segs, raw) == \E i \in 1..Len(raw) : raw[i][1] \notin DOMAIN segs

\* (mutant) the scan starts at offset 0
PathStepsFromZero(segs, raw) == ScanSteps(segs, raw, 1, 0)

PathSteps(segs, raw) == ScanSteps(segs, raw, 1, 1)

\* the closure mapped over one path: (path_name, steps)
MapPath(segs, path) == <<path.path_name, PathSteps(segs, path.steps)>>

\* gfa_path_data as a whole: a failed unwrap in any path's closure panics,
\* otherwise the unzip of the mapped paths, in the order of gfa.paths
gfa_path_data(segs, gpaths) ==
    IF \E i \in DOMAIN gpaths : MissingNode(segs, gpaths[i].steps)
    THEN [status |-> "panic", path_names |-> <<>>, paths |-> <<>>]
    ELSE [status |-> "done",
          path_names |-> [i \in DOMAIN gpaths |-> MapPath(segs, gpaths[i])[1]],
          paths |-> [i \in DOMAIN gpaths |-> MapPath(segs, gpaths[i])[2]]]

---------------------------------------------------------------------------
(* Bubble Index Builder: bubble_path_indices *)

\* (mutant) the first occurrence of a node is kept
RECURSIVE CollectFirstIndices(_, _, _, _)
CollectFirstIndices(path, verts, i, acc) ==
    IF i > Len(path) THEN acc
    ELSE LET step == path[i][1]
             ix == i - 1
         IN  CollectFirstIndices(path, verts, i + 1,
                 IF step \in verts /\ step \notin DOMAIN acc
                 THEN MapInsert(acc, step, ix) ELSE acc)

\* phase 1, one path: the filter_map over the enumerated steps collected
\* into a hash map, a later (step, ix) replacing an earlier one; ix is the
\* 0-based index of the step
RECURSIVE CollectNodeIndices(_, _, _, _)
CollectNodeIndices(path, verts, i, acc) ==
    IF i > Len(path) THEN acc
    ELSE LET step == path[i][1]
             ix == i - 1
         IN  CollectNodeIndices(path, verts, i + 1,
                 IF step \in verts THEN MapInsert(acc, step, ix) ELSE acc)

NodeIndices(path, verts) == CollectNodeIndices(path, verts, 1, EmptyMap)

\* phase 2, one boundary node: the paths of the transposed map that hold it
TransposeNode(trans, node) ==
    [path_ix \in {p \in DOMAIN trans : node \in DOMAIN trans[p]}
        |-> trans[path_ix][node]]

\* bubble_path_indices as a whole; path indices are 0-based
bubble_path_indices(ps, verts) ==
    LET trans == [path_ix \in 0..(Len(ps) - 1)
                     |-> NodeIndices(ps[path_ix + 1], verts)]
    IN  [node \in verts |-> TransposeNode(trans, node)]

---------------------------------------------------------------------------
(* Pairwise Diff Engine: detect_variants_against_ref *)

InitWalk ==
    [ref_ix |-> 0, query_ix |-> 0, variants |-> EmptyMap,
     status |-> "run", last_op |-> "start", emitted |-> {}]

\* the node whose last byte is the "prior base" of an indel at ref_ix
PrevRefNode(rpath, ref_ix) ==
    IF ref_ix = 0 THEN rpath[ref_ix + 1][1] ELSE rpath[ref_ix][1]

\* prev_ref_seq lookup and prev_ref_seq.last().unwrap() fail
PrevBasePanics(segs, rpath, ref_ix) ==
    \/ PrevRefNode(rpath, ref_ix) \notin DOMAIN segs
    \/ segs[PrevRefNode(rpath, ref_ix)] = <<>>

\* (mutant) the deletion is keyed at the offset of the deleted node
DeletionCallAtOffset(segs, name, rpath, ref_ix) ==
    LET last_prev_seq == Last(segs[PrevRefNode(rpath, ref_ix)])
    IN  [key |-> VariantKey(name, rpath[ref_ix + 1][2],
                            <<last_prev_seq>> \o segs[rpath[ref_ix + 1][1]]),
         variant |-> Del(<<last_prev_seq>>)]

\* the deletion branch: key and variant
DeletionCall(segs, name, rpath, ref_ix) ==
    LET ref_seq == segs[rpath[ref_ix + 1][1]]
        ref_seq_ix == rpath[ref_ix + 1][2]
        last_prev_seq == Last(segs[PrevRefNode(rpath, ref_ix)])
        key_ref_seq == <<last_prev_seq>> \o ref_seq
    IN  [key |-> VariantKey(name, ref_seq_ix - 1, key_ref_seq),
         variant |-> Del(<<last_prev_seq>>)]

\* (mutant) the inserted allele is the query node's sequence alone
InsertionCallWithoutPriorBase(segs, name, rpath, qpath, ref_ix, query_ix) ==
    LET last_prev_seq == Last(segs[PrevRefNode(rpath, ref_ix)])
    IN  [key |-> VariantKey(name, rpath[ref_ix + 1][2] - 1, <<last_prev_seq>>),
         variant |-> Ins(segs[qpath[query_ix + 1][1]])]

\* the insertion branch: key and variant
InsertionCall(segs, name, rpath, qpath, ref_ix, query_ix) ==
    LET query_seq == segs[qpath[query_ix + 1][1]]
        ref_seq_ix == rpath[ref_ix + 1][2]
        last_prev_seq == Last(segs[PrevRefNode(rpath, ref_ix)])
        key_ref_seq == <<last_prev_seq>>
        var_seq == <<last_prev_seq>> \o query_seq
    IN  [key |-> VariantKey(name, ref_seq_ix - 1, key_ref_seq),
         variant |-> Ins(var_seq)]

\* (mutant) the mismatch branch never classifies a single base
MismatchVariantAlwaysMnp(ref_seq, query_seq) == Mnp(query_seq)

\* the variant of the aligned-mismatch branch
MismatchVariant(ref_seq, query_seq) ==
    IF Len(ref_seq) = 1
    THEN Snv(Last(query_seq))
    ELSE Mnp(query_seq)

\* (mutant) the mismatch is keyed one base before the reference node
MismatchCallAtPriorOffset(segs, name, rpath, qpath, ref_ix, query_ix) ==
    [key |-> VariantKey(name, rpath[ref_ix + 1][2] - 1, segs[rpath[ref_ix + 1][1]]),
     variant |-> MismatchVariant(segs[rpath[ref_ix + 1][1]], segs[qpath[query_ix + 1][1]])]

\* the aligned-mismatch branch: key and variant
MismatchCall(segs, name, rpath, qpath, ref_ix, query_ix) ==
    LET ref_seq == segs[rpath[ref_ix + 1][1]]
        query_seq == segs[qpath[query_ix + 1][1]]
        ref_seq_ix == rpath[ref_ix + 1][2]
    IN  [key |-> VariantKey(name, ref_seq_ix, ref_seq),
         variant |-> MismatchVariant(ref_seq, query_seq)]

\* query_seq.last().unwrap() of the Snv case fails on an empty query sequence
MismatchPanics(ref_seq, query_seq) == Len(ref_seq) = 1 /\ query_seq = <<>>

\* the guard that stops the walk on a mismatch at the end of either sub-path
AtEnd(rpath, qpath, ref_ix, query_ix) ==
    ref_ix + 1 >= Len(rpath) \/ query_ix + 1 >= Len(qpath)

\* (mutant) a walk that steps over every pair of nodes and, on different
\* nodes at the end of either sub-path, makes a last call before it stops
WalkStepCallsAtEnd(segs, name, rpath, qpath, w) ==
    IF w.ref_ix >= Len(rpath) \/ w.query_ix >= Len(qpath)
    THEN [w EXCEPT !.status = "done", !.last_op = "exit", !.emitted = {}]
    ELSE IF /\ rpath[w.ref_ix + 1][1] # qpath[w.query_ix + 1][1]
            /\ AtEnd(rpath, qpath, w.ref_ix, w.query_ix)
    THEN LET c == [key |-> VariantKey(name, rpath[w.ref_ix + 1][2],
                                      segs[rpath[w.ref_ix + 1][1]]),
                   variant |-> Mnp(segs[qpath[w.query_ix + 1][1]])]
         IN  [w EXCEPT !.variants = EntryInsert(@, c.key, c.variant),
                       !.status = "done", !.last_op = "end_break", !.emitted = {c}]
    ELSE [w EXCEPT !.ref_ix = @ + 1, !.query_ix = @ + 1, !.last_op = "match",
                   !.emitted = {}]

\* (mutant) a walk that stays where it is on different nodes before the end
\* of both sub-paths
WalkStepWithoutProgress(segs, name, rpath, qpath, w) ==
    IF w.ref_ix >= Len(rpath) \/ w.query_ix >= Len(qpath)
    THEN [w EXCEPT !.status = "done", !.last_op = "exit", !.emitted = {}]
    ELSE IF rpath[w.ref_ix + 1][1] = qpath[w.query_ix + 1][1]
    THEN [w EXCEPT !.ref_ix = @ + 1, !.query_ix = @ + 1, !.last_op = "match",
                   !.emitted = {}]
    ELSE IF AtEnd(rpath, qpath, w.ref_ix, w.query_ix)
    THEN [w EXCEPT !.status = "done", !.last_op = "end_break", !.emitted = {}]
    ELSE [w EXCEPT !.last_op = "same_seq", !.emitted = {}]

\* one iteration of the loop of detect_variants_against_ref
WalkStep(segs, name, rpath, qpath, w) ==
    IF w.ref_ix >= Len(rpath) \/ w.query_ix >= Len(qpath)
    THEN [w EXCEPT !.status = "done", !.last_op = "exit", !.emitted = {}]
    ELSE
    LET ref_node == rpath[w.ref_ix + 1][1]
        query_node == qpath[w.query_ix + 1][1]
        Panic == [w EXCEPT !.status = "panic", !.last_op = "panic",
                           !.emitted = {}]
    IN
    IF ref_node \notin DOMAIN segs \/ query_node \notin DOMAIN segs
    THEN Panic
    ELSE IF ref_node = query_node
    THEN [w EXCEPT !.ref_ix = @ + 1, !.query_ix = @ + 1, !.last_op = "match",
                  !.emitted = {}]
    ELSE IF AtEnd(rpath, qpath, w.ref_ix, w.query_ix)
    THEN [w EXCEPT !.status = "done", !.last_op = "end_break",
                  !.emitted = {}]
    ELSE
    LET next_ref_node == rpath[w.ref_ix + 2][1]
        next_query_node == qpath[w.query_ix + 2][1]
        ref_seq == segs[ref_node]
        query_seq == segs[query_node]
    IN
    IF next_ref_node = query_node
    THEN IF PrevBasePanics(segs, rpath, w.ref_ix) THEN Panic
         ELSE LET c == DeletionCall(segs, name, rpath, w.ref_ix)
              IN  [w EXCEPT !.variants = EntryInsert(@, c.key, c.variant),
                            !.ref_ix = @ + 1, !.last_op = "deletion",
                            !.emitted = {c}]
    ELSE IF next_query_node = ref_node
    THEN IF PrevBasePanics(segs, rpath, w.ref_ix) THEN Panic
         ELSE LET c == InsertionCall(segs, name, rpath, qpath,
                                     w.ref_ix, w.query_ix)
              IN  [w EXCEPT !.variants = EntryInsert(@, c.key, c.variant),
                            !.query_ix = @ + 1, !.last_op = "insertion",
                            !.emitted = {c}]
    ELSE IF ref_seq # query_seq
    THEN IF MismatchPanics(ref_seq, query_seq) THEN Panic
         ELSE LET c == MismatchCall(segs, name, rpath, qpath,
                                    w.ref_ix, w.query_ix)
              IN  [w EXCEPT !.variants = EntryInsert(@, c.key, c.variant),
                            !.ref_ix = @ + 1, !.query_ix = @ + 1,
                            !.last_op = "mismatch", !.emitted = {c}]
    ELSE [w EXCEPT !.ref_ix = @ + 1, !.query_ix = @ + 1,
                   !.last_op = "same_seq", !.emitted = {}]

\* the loop run to its end: the final walk state
RECURSIVE RunWalk(_, _, _, _, _)
RunWalk(segs, name, rpath, qpath, w) ==
    IF w.status # "run" THEN w
    ELSE RunWalk(segs, name, rpath, qpath,
                 WalkStep(segs, name, rpath, qpath, w))

(* The handler-based walk: detect_variants_against_ref_with drives a
   VariantHandler; VCFVariantHandler fills the map. A handler is the record
   [variants, status], status "panic" once an unwrap has failed *)

\* VCFVariantHandler::new
NewHandler == [variants |-> EmptyMap, status |-> "run"]

\* VCFVariantHandler::deletion
HandlerDeletion(segs, name, rpath, h, ref_ix, ref_seq_ix) ==
    LET ref_node == rpath[ref_ix + 1][1]
        prev_ref_node == IF ref_ix = 0 THEN rpath[ref_ix + 1][1] ELSE rpath[ref_ix][1]
    IN  IF ref_node \notin DOMAIN segs \/ prev_ref_node \notin DOMAIN segs
        THEN [h EXCEPT !.status = "panic"]
        ELSE IF Len(segs[prev_ref_node]) = 0
        THEN [h EXCEPT !.status = "panic"]
        ELSE LET prev_ref_seq == segs[prev_ref_node]
                 last_prev_seq == prev_ref_seq[Len(prev_ref_seq)]
                 var_key == [ref_name |-> name, pos |-> ref_seq_ix - 1,
                             sequence |-> <<last_prev_seq>> \o segs[ref_node]]
             IN  [h EXCEPT !.variants = EntryInsert(@, var_key, Del(<<last_prev_seq>>))]

\* (mutant) the insertion is keyed at the offset of the reference node
HandlerInsertionAtOffset(segs, name, rpath, qpath, h, ref_ix, query_ix, ref_seq_ix) ==
    LET prev_ref_node == IF ref_ix = 0 THEN rpath[ref_ix + 1][1] ELSE rpath[ref_ix][1]
        last_prev_seq == Last(segs[prev_ref_node])
        var_key == [ref_name |-> name, pos |-> ref_seq_ix,
                    sequence |-> <<last_prev_seq>>]
    IN  IF prev_ref_node \notin DOMAIN segs \/ qpath[query_ix + 1][1] \notin DOMAIN segs
        THEN [h EXCEPT !.status = "panic"]
        ELSE IF segs[prev_ref_node] = <<>>
        THEN [h EXCEPT !.status = "panic"]
        ELSE [h EXCEPT !.variants =
                 EntryInsert(@, var_key,
                             Ins(<<last_prev_seq>> \o segs[qpath[query_ix + 1][1]]))]

\* VCFVariantHandler::insertion
HandlerInsertion(segs, name, rpath, qpath, h, ref_ix, query_ix, ref_seq_ix) ==
    LET query_node == qpath[query_ix + 1][1]
        prev_ref_node == IF ref_ix = 0 THEN rpath[ref_ix + 1][1] ELSE rpath[ref_ix][1]
    IN  IF query_node \notin DOMAIN segs \/ prev_ref_node \notin DOMAIN segs
        THEN [h EXCEPT !.status = "panic"]
        ELSE IF Len(segs[prev_ref_node]) = 0
        THEN [h EXCEPT !.status = "panic"]
        ELSE LET prev_ref_seq == segs[prev_ref_node]
                 last_prev_seq == prev_ref_seq[Len(prev_ref_seq)]
                 var_key == [ref_name |-> name, pos |-> ref_seq_ix - 1,
                             sequence |-> <<last_prev_seq>>]
                 var_seq == <<last_prev_seq>> \o segs[query_node]
             IN  [h EXCEPT !.variants = EntryInsert(@, var_key, Ins(var_seq))]

\* VCFVariantHandler::mismatch
HandlerMismatch(segs, name, rpath, qpath, h, ref_ix, query_ix, ref_seq_ix) ==
    LET ref_node == rpath[ref_ix + 1][1]
        query_node == qpath[query_ix + 1][1]
    IN  IF ref_node \notin DOMAIN segs \/ query_node \notin DOMAIN segs
        THEN [h EXCEPT !.status = "panic"]
        ELSE LET ref_seq == segs[ref_node]
                 query_seq == segs[query_node]
                 var_key == [ref_name |-> name, pos |-> ref_seq_ix,
                             sequence |-> ref_seq]
             IN  IF Len(ref_seq) = 1
                 THEN IF Len(query_seq) = 0
                      THEN [h EXCEPT !.status = "panic"]
                      ELSE [h EXCEPT !.variants =
                               EntryInsert(@, var_key, Snv(query_seq[Len(query_seq)]))]
                 ELSE [h EXCEPT !.variants = EntryInsert(@, var_key, Mnp(query_seq))]

\* VCFVariantHandler::match_
HandlerMatch(h) == h

\* detect_variants_against_ref_with before its loop
InitWalkWith == [ref_ix |-> 0, query_ix |-> 0, handler |-> NewHandler, status |-> "run"]

\* one iteration of the loop of detect_variants_against_ref_with, driving
\* VCFVariantHandler
WalkStepWith(segs, name, rpath, qpath, w) ==
    IF w.ref_ix >= Len(rpath) \/ w.query_ix >= Len(qpath)
    THEN [w EXCEPT !.status = "done"]
    ELSE
    LET ref_node == rpath[w.ref_ix + 1][1]
        ref_seq_ix == rpath[w.ref_ix + 1][2]
        query_node == qpath[w.query_ix + 1][1]
        After(h, ref_step, query_step) ==
            IF h.status = "panic"
            THEN [w EXCEPT !.handler = h, !.status = "panic"]
            ELSE [w EXCEPT !.handler = h, !.ref_ix = @ + ref_step,
                           !.query_ix = @ + query_step]
    IN
    IF ref_node \notin DOMAIN segs \/ query_node \notin DOMAIN segs
    THEN [w EXCEPT !.status = "panic"]
    ELSE IF ref_node = query_node
    THEN [w EXCEPT !.ref_ix = @ + 1, !.query_ix = @ + 1]
    ELSE IF w.ref_ix + 1 >= Len(rpath) \/ w.query_ix + 1 >= Len(qpath)
    THEN [w EXCEPT !.status = "done"]
    ELSE IF rpath[w.ref_ix + 2][1] = query_node
    THEN After(HandlerDeletion(segs, name, rpath, w.handler, w.ref_ix, ref_seq_ix), 1, 0)
    ELSE IF qpath[w.query_ix + 2][1] = ref_node
    THEN After(HandlerInsertion(segs, name, rpath, qpath, w.handler,
                                w.ref_ix, w.query_ix, ref_seq_ix), 0, 1)
    ELSE IF segs[ref_node] # segs[query_node]
    THEN After(HandlerMismatch(segs, name, rpath, qpath, w.handler,
                               w.ref_ix, w.query_ix, ref_seq_ix), 1, 1)
    ELSE After(HandlerMatch(w.handler), 1, 1)

\* the loop run to its end
RECURSIVE RunWalkWith(_, _, _, _, _)
RunWalkWith(segs, name, rpath, qpath, w) ==
    IF w.status # "run" THEN w
    ELSE RunWalkWith(segs, name, rpath, qpath,
                     WalkStepWith(segs, name, rpath, qpath, w))

\* detect_variants_against_ref_: handler.variants, or "panic"
detect_variants_against_ref_(segs, name, rpath, qpath) ==
    LET w == RunWalkWith(segs, name, rpath, qpath, InitWalkWith)
    IN  [status |-> w.status, variants |-> w.handler.variants]

\* (mutant) the walk starts at the second step of the query
DiffFromSecondQueryStep(segs, name, rpath, qpath) ==
    LET w == RunWalk(segs, name, rpath, qpath, [InitWalk EXCEPT !.query_ix = 1])
    IN  [status |-> w.status, variants |-> w.variants]

\* detect_variants_against_ref: the returned map, or "panic"
detect_variants_against_ref(segs, name, rpath, qpath) ==
    LET w == RunWalk(segs, name, rpath, qpath, InitWalk)
    IN  [status |-> w.status, variants |-> w.variants]

---------------------------------------------------------------------------
(* Orchestrator: path_data_sub_paths and detect_variants_in_sub_paths *)

\* an Option of a set of names: None, or Some(names)
NoNames == [some |-> FALSE, names |-> {}]

SomeNames(names) == [some |-> TRUE, names |-> names]

\* HashMap::extend with the entries of a map: the value of a key that is
\* already present is replaced by the new value
MapExtend(m, new) ==
    [k \in (DOMAIN m) \cup (DOMAIN new) |-> IF k \in DOMAIN new THEN new[k] ELSE m[k]]

\* bool::from(Orientation), as a number: Forward is true, Backward is false
OrientBit(o) == IF o = "Forward" THEN 1 ELSE 0

\* the (node, offset, bool) triples of a step slice, one after the other
RECURSIVE StepsKey(_)
StepsKey(steps) ==
    IF steps = <<>> THEN <<>>
    ELSE <<steps[1][1], steps[1][2], OrientBit(steps[1][3])>> \o StepsKey(Tail(steps))

\* Iterator::cmp of two number sequences: lexicographic, a proper prefix is Less
RECURSIVE LexCmp(_, _)
LexCmp(v, w) ==
    IF v = <<>> THEN (IF w = <<>> THEN "Equal" ELSE "Less")
    ELSE IF w = <<>> THEN "Greater"
    ELSE IF v[1] < w[1] THEN "Less"
    ELSE IF v[1] > w[1] THEN "Greater"
    ELSE LexCmp(Tail(v), Tail(w))

\* a <<key, item>> pair put into a sorted list behind every pair whose key is
\* not Greater
InsertByKey(sorted, x) ==
    LET n == Cardinality({i \in DOMAIN sorted : LexCmp(sorted[i][1], x[1]) # "Greater"})
    IN  SubSeq(sorted, 1, n) \o <<x>> \o SubSeq(sorted, n + 1, Len(sorted))

\* slice::sort_by on <<key, item>> pairs: a stable sort by key
RECURSIVE SortByKey(_)
SortByKey(s) ==
    IF s = <<>> THEN <<>>
    ELSE InsertByKey(SortByKey(SubSeq(s, 1, Len(s) - 1)), Last(s))

\* Vec::dedup_by on tuples compared at component f: an element equal to the
\* retained element just before it is removed
RECURSIVE Dedup(_, _)
Dedup(s, f) ==
    IF Len(s) < 2 THEN s
    ELSE LET d == Dedup(SubSeq(s, 1, Len(s) - 1), f)
         IN  IF Last(d)[f] = Last(s)[f] THEN d ELSE Append(d, Last(s))

\* the orientations of the first and of the last step of a sub-path
sub_path_edge_orient(path) == <<path[1][3], Last(path)[3]>>

\* ignore_path with the comparison the wrong way round
IgnoreWhenEqual(ignore_inverted_paths, ref_orient, query_orient) ==
    ignore_inverted_paths /\ ref_orient = query_orient

\* VariantConfig::ignore_path
ignore_path(ignore_inverted_paths, ref_orient, query_orient) ==
    ignore_inverted_paths /\ ref_orient # query_orient

\* is_ref_path that lets every path through
AnyPathIsRef(allowed, name) == TRUE

\* the closure is_ref_path
is_ref_path(allowed, name) == IF allowed.some THEN name \in allowed.names ELSE TRUE

\* path_data_sub_paths keeping every range, whatever its length
SubPathsOfAnyLength(ps, indices, from, to) ==
    IF from \notin DOMAIN indices \/ to \notin DOMAIN indices
    THEN [some |-> FALSE, sub_paths |-> <<>>]
    ELSE
    LET from_indices == indices[from]
        to_indices == indices[to]
        Lo(p) == Min(from_indices[p], to_indices[p])
        Hi(p) == IF from_indices[p] >= to_indices[p]
                 THEN from_indices[p] ELSE to_indices[p]
        Entry(p) == <<p, SubSeq(ps[p + 1], Lo(p) + 1, Hi(p) + 1)>>
        Kept(p) == p \in DOMAIN from_indices /\ p \in DOMAIN to_indices
        all_ix == [i \in 1..Len(ps) |-> i - 1]
        kept_ix == SelectSeq(all_ix, Kept)
    IN  [some |-> TRUE, sub_paths |-> [i \in DOMAIN kept_ix |-> Entry(kept_ix[i])]]

\* path_data_sub_paths reading a missing entry of to as index 0
SubPathsDefaultZero(ps, indices, from, to) ==
    IF from \notin DOMAIN indices \/ to \notin DOMAIN indices
    THEN [some |-> FALSE, sub_paths |-> <<>>]
    ELSE
    LET from_indices == indices[from]
        to_indices == indices[to]
        ToIx(p) == IF p \in DOMAIN to_indices THEN to_indices[p] ELSE 0
        Lo(p) == Min(from_indices[p], ToIx(p))
        Hi(p) == IF from_indices[p] >= ToIx(p) THEN from_indices[p] ELSE ToIx(p)
        Entry(p) == <<p, SubSeq(ps[p + 1], Lo(p) + 1, Hi(p) + 1)>>
        Kept(p) == p \in DOMAIN from_indices /\ Len(Entry(p)[2]) > 2
        all_ix == [i \in 1..Len(ps) |-> i - 1]
        kept_ix == SelectSeq(all_ix, Kept)
    IN  [some |-> TRUE, sub_paths |-> [i \in DOMAIN kept_ix |-> Entry(kept_ix[i])]]

\* path_data_sub_paths taking the range from the entry of from to the entry of
\* to, without min and max
SubPathsFromTo(ps, indices, from, to) ==
    IF from \notin DOMAIN indices \/ to \notin DOMAIN indices
    THEN [some |-> FALSE, sub_paths |-> <<>>]
    ELSE
    LET from_indices == indices[from]
        to_indices == indices[to]
        Entry(p) == <<p, SubSeq(ps[p + 1], from_indices[p] + 1, to_indices[p] + 1)>>
        Kept(p) == /\ p \in DOMAIN from_indices
                   /\ p \in DOMAIN to_indices
                   /\ Len(Entry(p)[2]) > 2
        all_ix == [i \in 1..Len(ps) |-> i - 1]
        kept_ix == SelectSeq(all_ix, Kept)
    IN  [some |-> TRUE, sub_paths |-> [i \in DOMAIN kept_ix |-> Entry(kept_ix[i])]]

\* path_data_sub_paths: None when a boundary node has no index entry, else
\* the <<path_ix, sub_path>> pairs, in path order, of the paths that hold both
\* boundary nodes more than two steps apart (inclusive)
path_data_sub_paths(ps, indices, from, to) ==
    IF from \notin DOMAIN indices \/ to \notin DOMAIN indices
    THEN [some |-> FALSE, sub_paths |-> <<>>]
    ELSE
    LET from_indices == indices[from]
        to_indices == indices[to]
        Lo(p) == Min(from_indices[p], to_indices[p])
        Hi(p) == IF from_indices[p] >= to_indices[p]
                 THEN from_indices[p] ELSE to_indices[p]
        Entry(p) == <<p, SubSeq(ps[p + 1], Lo(p) + 1, Hi(p) + 1)>>
        Kept(p) == /\ p \in DOMAIN from_indices
                   /\ p \in DOMAIN to_indices
                   /\ Len(Entry(p)[2]) > 2
        all_ix == [i \in 1..Len(ps) |-> i - 1]
        kept_ix == SelectSeq(all_ix, Kept)
    IN  [some |-> TRUE, sub_paths |-> [i \in DOMAIN kept_ix |-> Entry(kept_ix[i])]]

\* find_snps_in_sub_paths: the <<reference sub-path, query sub-path>> pairs the
\* call hands to the diff walk: the sub-path of path ref_path_ix with every
\* extracted sub-path, or none when the extraction or the find returns None
find_snps_pairs(ps, indices, ref_path_ix, from, to) ==
    LET sp == path_data_sub_paths(ps, indices, from, to)
        found == {i \in DOMAIN sp.sub_paths : sp.sub_paths[i][1] = ref_path_ix}
    IN  IF ~sp.some \/ found = {} THEN {}
        ELSE LET ref_sub_path == sp.sub_paths[MinOf(found)][2]
             IN  {<<ref_sub_path, sp.sub_paths[j][2]>> : j \in DOMAIN sp.sub_paths}

\* (mutant) the dedup of the query sub-paths without the sort before it
QueryPathsUnsorted(sub_paths) ==
    LET keyed == [i \in DOMAIN sub_paths |-> <<StepsKey(sub_paths[i][2]), sub_paths[i]>>]
        kept == Dedup(keyed, 1)
    IN  [i \in DOMAIN kept |-> kept[i][2]]

\* query_paths: the sub-paths sorted by their steps, equal step slices removed
QueryPaths(sub_paths) ==
    LET keyed == [i \in DOMAIN sub_paths |-> <<StepsKey(sub_paths[i][2]), sub_paths[i]>>]
        kept == Dedup(SortByKey(keyed), 1)
    IN  [i \in DOMAIN kept |-> kept[i][2]]

\* detect_variants_in_sub_paths before its first statement
InitBubble(from, to) ==
    [from |-> from, to |-> to, sub_paths |-> <<>>, query_paths |-> <<>>,
     ref_i |-> 0, query_j |-> 0, ref_map |-> EmptyMap, variants |-> EmptyMap,
     status |-> "start", last_op |-> "call"]

\* one step of detect_variants_in_sub_paths: the extraction with the sort and
\* dedup of the queries, then one step per reference (skipped, or finished and
\* stored under its name) and per (reference, query) pair of the inner loop.
\* ref_i and query_j count the references and queries already consumed.
BubbleStep(segs, names, ps, indices, ignore_inverted_paths, allowed, b) ==
    IF b.status = "start"
    THEN LET sp == path_data_sub_paths(ps, indices, b.from, b.to)
         IN  IF ~sp.some
             THEN [b EXCEPT !.status = "none", !.last_op = "no_sub_paths"]
             ELSE [b EXCEPT !.sub_paths = sp.sub_paths,
                            !.query_paths = QueryPaths(sp.sub_paths),
                            !.status = "refs", !.last_op = "extract"]
    ELSE IF b.ref_i >= Len(b.sub_paths)
    THEN [b EXCEPT !.status = "done", !.last_op = "return"]
    ELSE
    LET ref_ix == b.sub_paths[b.ref_i + 1][1]
        rpath == b.sub_paths[b.ref_i + 1][2]
        rname == names[ref_ix + 1]
    IN
    IF ~is_ref_path(allowed, rname)
    THEN [b EXCEPT !.ref_i = @ + 1, !.last_op = "skip_ref"]
    ELSE IF b.query_j >= Len(b.query_paths)
    THEN [b EXCEPT !.variants = MapInsert(@, rname, b.ref_map),
                   !.ref_map = EmptyMap, !.ref_i = @ + 1, !.query_j = 0,
                   !.last_op = "store_ref"]
    ELSE
    LET query_ix == b.query_paths[b.query_j + 1][1]
        qpath == b.query_paths[b.query_j + 1][2]
        qname == names[query_ix + 1]
    IN
    IF rname # qname
       /\ ~ignore_path(ignore_inverted_paths, sub_path_edge_orient(rpath),
                       sub_path_edge_orient(qpath))
    THEN LET found == detect_variants_against_ref(segs, rname, rpath, qpath)
         IN  IF found.status = "panic"
             THEN [b EXCEPT !.status = "panic", !.last_op = "panic"]
             ELSE [b EXCEPT !.ref_map = MapExtend(@, found.variants),
                            !.query_j = @ + 1, !.last_op = "compare"]
    ELSE [b EXCEPT !.query_j = @ + 1, !.last_op = "skip_query"]

\* the call run to its end
RECURSIVE RunBubble(_, _, _, _, _, _, _)
RunBubble(segs, names, ps, indices, ignore_inverted_paths, allowed, b) ==
    IF b.status \notin {"start", "refs"} THEN b
    ELSE RunBubble(segs, names, ps, indices, ignore_inverted_paths, allowed,
                   BubbleStep(segs, names, ps, indices, ignore_inverted_paths,
                              allowed, b))

\* detect_variants_in_sub_paths: status "none" (None), "done" (Some(variants))
\* or "panic"
detect_variants_in_sub_paths(segs, names, ps, indices, ignore_inverted_paths, allowed, from, to) ==
    LET b == RunBubble(segs, names, ps, indices, ignore_inverted_paths, allowed,
                       InitBubble(from, to))
    IN  [status |-> b.status, variants |-> b.variants]

---------------------------------------------------------------------------
(* Record Assembler: variant_vcf_record *)

\* the INFO type tag of a variant
TypeTag(variant) ==
    CASE variant.tag = "Del" -> "del"
      [] variant.tag = "Ins" -> "ins"
      [] variant.tag = "Snv" -> "snv"
      [] variant.tag = "Mnp" -> "mnp"

\* the orders in which a hash set or hash map can hand out the elements of S
Orderings(S) ==
    {o \in [1..Cardinality(S) -> S] : \A x \in S : \E i \in DOMAIN o : o[i] = x}

\* bstr::join: the items with sep between neighbours
RECURSIVE Join(_, _)
Join(sep, items) ==
    IF items = <<>> THEN <<>>
    ELSE IF Len(items) = 1 THEN items[1]
    ELSE items[1] \o sep \o Join(sep, Tail(items))

\* the record of one (key, variant set) when the set is iterated in order o:
\* alternate is the alleles joined by "," and info is "TYPE=" followed by the
\* type tags joined by ";TYPE="
VCFRecord(key, o) ==
    [chromosome |-> key.ref_name,
     position   |-> key.pos,
     reference  |-> key.sequence,
     alternate  |-> Join(<<",">>, [i \in DOMAIN o |-> o[i].seq]),
     info       |-> <<"TYPE=">> \o Join(<<";TYPE=">>, [i \in DOMAIN o |-> <<TypeTag(o[i])>>])]

\* the records one key can give, over the iteration orders of its variant set
KeyRecords(key, var_set) == {VCFRecord(key, o) : o \in Orderings(var_set)}

\* the record lists the inner loop can push for one reference's map, over the
\* iteration orders of the map and of its sets
MapRecords(variant_map) ==
    UNION {{r \in [DOMAIN ko -> UNION {KeyRecords(k, variant_map[k]) : k \in DOMAIN variant_map}] :
              \A i \in DOMAIN ko : r[i] \in KeyRecords(ko[i], variant_map[ko[i]])}
           : ko \in Orderings(DOMAIN variant_map)}

\* the lists in seqs (one set of lists per position) chained in order
RECURSIVE Chains(_)
Chains(seqs) ==
    IF seqs = <<>> THEN {<<>>}
    ELSE {h \o t : h \in seqs[1], t \in Chains(Tail(seqs))}

\* variant_vcf_record: the record lists the call can return, over the
\* iteration orders of the outer map, of the inner maps and of the sets
variant_vcf_record(variants) ==
    UNION {Chains([i \in DOMAIN no |-> MapRecords(variants[no[i]])])
           : no \in Orderings(DOMAIN variants)}

\* the <<chromosome rank, position>> pair that vcf_cmp compares: path names
\* compare byte-wise, which for PathNames is their order in the tuple
VcfKey(record) ==
    <<CHOOSE i \in DOMAIN PathNames : PathNames[i] = record.chromosome, record.position>>

\* vcf_cmp
vcf_cmp(v0, v1) == LexCmp(VcfKey(v0), VcfKey(v1))

\* dedup() of the records in the order they were collected
DedupUnsorted(records) ==
    LET keyed == [i \in DOMAIN records |-> <<VcfKey(records[i]), records[i]>>]
        kept == Dedup(keyed, 2)
    IN  [i \in DOMAIN kept |-> kept[i][2]]

\* all_vcf_records.sort_by(vcf_cmp) followed by all_vcf_records.dedup()
SortDedup(records) ==
    LET keyed == [i \in DOMAIN records |-> <<VcfKey(records[i]), records[i]>>]
        kept == Dedup(SortByKey(keyed), 2)
    IN  [i \in DOMAIN kept |-> kept[i][2]]

\* the lists of batches (a map from index 0.. to record list) chained in
\* index order
RECURSIVE Flatten(_, _)
Flatten(batch_map, n) ==
    IF n = 0 THEN <<>> ELSE Flatten(batch_map, n - 1) \o batch_map[n - 1]

\* ultrabubbles.sort(): tuples in lexicographic order
SortBubbles(bubbles) ==
    LET keyed == [i \in DOMAIN bubbles |-> <<bubbles[i], bubbles[i]>>]
        sorted == SortByKey(keyed)
    IN  [i \in DOMAIN sorted |-> sorted[i][2]]

\* the set ultrabubble_nodes
ultrabubble_nodes(bubbles) ==
    UNION {{bubbles[i][1], bubbles[i][2]} : i \in DOMAIN bubbles}

---------------------------------------------------------------------------
(* The diff walk as a state machine: one action per loop iteration *)

\* node-id patterns of length n up to renaming of the nodes: every node is
\* either one seen before or the next unused id (the walk reads node ids
\* only through equality and the segment map)
RECURSIVE NodePatterns(_, _)
NodePatterns(n, cap) ==
    IF n = 0 THEN {<<>>}
    ELSE UNION {{Append(s, x) : x \in 1..Min(cap, Max({0} \cup {s[i] : i \in 1..Len(s)}) + 1)}
                : s \in NodePatterns(n - 1, cap)}

\* raw path: every step of the node list with the same orientation
RawPath(nodes, orient) == [i \in 1..Len(nodes) |-> <<nodes[i], orient>>]

\* the parts of the state a specification does not use stay idle
DiffIdle ==
    /\ ref_name = ""
    /\ ref_path = <<>>
    /\ query_path = <<>>
    /\ walk = [InitWalk EXCEPT !.status = "idle"]

PathDataIdle ==
    /\ gfa_paths = <<>>
    /\ mapped = EmptyMap
    /\ path_names = <<>>
    /\ paths = <<>>
    /\ pd_status = "idle"

IndexIdle ==
    /\ vertices = {}
    /\ transposed = EmptyMap
    /\ path_map = EmptyMap
    /\ idx_status = "idle"

OrchIdle ==
    /\ var_config = TRUE
    /\ ref_path_names = NoNames
    /\ bubble = [InitBubble(0, 0) EXCEPT !.status = "idle"]

CmdIdle ==
    /\ ultrabubbles = <<>>
    /\ batches = EmptyMap
    /\ all_vcf_records = <<>>
    /\ stdout = <<>>
    /\ cmd_status = "idle"

InitDiff ==
    /\ \E lr \in 1..MaxLen, lq \in 1..MaxLen :
         \E s \in NodePatterns(lr + lq, MaxNode) :
           \E segs \in [1..Max({s[i] : i \in 1..Len(s)}) -> SeqPool] :
             /\ segment_map = segs
             /\ ref_name = "a"
             /\ ref_path = PathSteps(segs, RawPath(SubSeq(s, 1, lr), "Forward"))
             /\ query_path =
                  PathSteps(segs, RawPath(SubSeq(s, lr + 1, lr + lq), "Forward"))
             /\ walk = InitWalk
    /\ PathDataIdle
    /\ IndexIdle
    /\ OrchIdle
    /\ CmdIdle

\* one iteration of the loop
LoopIteration ==
    /\ walk.status = "run"
    /\ walk' = WalkStep(segment_map, ref_name, ref_path, query_path, walk)
    /\ UNCHANGED <<segment_map, ref_name, ref_path, query_path>>
    /\ UNCHANGED <<pd_vars, idx_vars, orch_vars, cmd_vars>>

NextDiff == LoopIteration

SpecDiff == InitDiff /\ [][NextDiff]_vars

---------------------------------------------------------------------------
(* gfa_path_data as a state machine: the parallel map runs the closure on
   the paths in any order, the unzip collects the results by path index *)

\* the sum of the first n entries of lens
RECURSIVE SumTo(_, _)
SumTo(lens, n) == IF n = 0 THEN 0 ELSE lens[n] + SumTo(lens, n - 1)

\* the node lists of n paths of 1..MaxSteps steps each, up to renaming of nodes
GraphShapes(n) ==
    UNION {{[i \in 1..n |-> SubSeq(s, SumTo(lens, i - 1) + 1, SumTo(lens, i))]
            : s \in NodePatterns(SumTo(lens, n), MaxSegs)}
           : lens \in [1..n -> 1..MaxSteps]}

ShapeNodes(shape) == UNION {{shape[i][j] : j \in DOMAIN shape[i]} : i \in DOMAIN shape}

\* the segment maps over the nodes of a shape, and those lacking one node
SegMaps(nodes) ==
    [nodes -> LenPool] \cup UNION {[nodes \ {m} -> LenPool] : m \in nodes}

\* the paths of a graph alternate in orientation, starting with first
AlternatingOrients(n, first) ==
    [i \in 1..n |-> IF i % 2 = 1 THEN first ELSE CHOOSE o \in Orientations : o # first]

GfaPaths(shape, orients) ==
    [i \in DOMAIN shape |->
        [path_name |-> PathNames[i], steps |-> RawPath(shape[i], orients[i])]]

InitPathData ==
    /\ \E n \in 1..MaxPaths :
         \E shape \in GraphShapes(n), first \in Orientations :
           /\ segment_map \in SegMaps(ShapeNodes(shape))
           /\ gfa_paths = GfaPaths(shape, AlternatingOrients(n, first))
    /\ mapped = EmptyMap
    /\ path_names = <<>>
    /\ paths = <<>>
    /\ pd_status = "mapping"
    /\ DiffIdle
    /\ IndexIdle
    /\ OrchIdle
    /\ CmdIdle

\* a worker runs the closure on path p (0-based); a missing node panics
MapOnePath(p) ==
    /\ pd_status = "mapping"
    /\ p \in (0..(Len(gfa_paths) - 1)) \ DOMAIN mapped
    /\ IF MissingNode(segment_map, gfa_paths[p + 1].steps)
       THEN /\ pd_status' = "panic"
            /\ UNCHANGED mapped
       ELSE /\ mapped' = MapInsert(mapped, p, MapPath(segment_map, gfa_paths[p + 1]))
            /\ UNCHANGED pd_status
    /\ UNCHANGED <<segment_map, gfa_paths, path_names, paths>>
    /\ UNCHANGED <<diff_vars, idx_vars, orch_vars, cmd_vars>>

\* the unzip: path_names and paths, each in the order of the input
Unzip ==
    /\ pd_status = "mapping"
    /\ DOMAIN mapped = 0..(Len(gfa_paths) - 1)
    /\ path_names' = [i \in DOMAIN gfa_paths |-> mapped[i - 1][1]]
    /\ paths' = [i \in DOMAIN gfa_paths |-> mapped[i - 1][2]]
    /\ pd_status' = "done"
    /\ UNCHANGED <<segment_map, gfa_paths, mapped>>
    /\ UNCHANGED <<diff_vars, idx_vars, orch_vars, cmd_vars>>

NextPathData ==
    \/ \E p \in 0..(MaxPaths - 1) : MapOnePath(p)
    \/ Unzip

SpecPathData == InitPathData /\ [][NextPathData]_vars

---------------------------------------------------------------------------
(* bubble_path_indices as a state machine: phase 1 maps the paths in any
   order, phase 2 maps the boundary nodes in any order *)

UnitSegments(nodes) == [n \in nodes |-> <<"A">>]

InitIndex ==
    /\ \E n \in 1..MaxPaths :
         \E shape \in GraphShapes(n) :
           /\ segment_map = UnitSegments(ShapeNodes(shape))
           /\ gfa_paths = GfaPaths(shape, [i \in 1..n |-> "Forward"])
           /\ LET pd == gfa_path_data(segment_map, gfa_paths)
              IN  /\ path_names = pd.path_names
                  /\ paths = pd.paths
                  /\ pd_status = pd.status
    /\ mapped = EmptyMap
    /\ vertices \in SUBSET (1..MaxSegs)
    /\ transposed = EmptyMap
    /\ path_map = EmptyMap
    /\ idx_status = "paths"
    /\ DiffIdle
    /\ OrchIdle
    /\ CmdIdle

\* phase 1: a worker scans path p (0-based)
IndexOnePath(p) ==
    /\ idx_status = "paths"
    /\ p \in (0..(Len(paths) - 1)) \ DOMAIN transposed
    /\ transposed' = MapInsert(transposed, p, NodeIndices(paths[p + 1], vertices))
    /\ UNCHANGED <<vertices, path_map, idx_status>>
    /\ UNCHANGED <<segment_map, diff_vars, pd_vars, orch_vars, cmd_vars>>

\* par_extend returns when every path has been scanned
PhaseOneDone ==
    /\ idx_status = "paths"
    /\ DOMAIN transposed = 0..(Len(paths) - 1)
    /\ idx_status' = "nodes"
    /\ UNCHANGED <<vertices, transposed, path_map>>
    /\ UNCHANGED <<segment_map, diff_vars, pd_vars, orch_vars, cmd_vars>>

\* phase 2: a worker transposes one boundary node
IndexOneNode(node) ==
    /\ idx_status = "nodes"
    /\ node \in vertices \ DOMAIN path_map
    /\ path_map' = MapInsert(path_map, node, TransposeNode(transposed, node))
    /\ UNCHANGED <<vertices, transposed, idx_status>>
    /\ UNCHANGED <<segment_map, diff_vars, pd_vars, orch_vars, cmd_vars>>

\* the collect returns when every boundary node has been transposed
IndexDone ==
    /\ idx_status = "nodes"
    /\ DOMAIN path_map = vertices
    /\ idx_status' = "done"
    /\ UNCHANGED <<vertices, transposed, path_map>>
    /\ UNCHANGED <<segment_map, diff_vars, pd_vars, orch_vars, cmd_vars>>

NextIndex ==
    \/ \E p \in 0..(MaxPaths - 1) : IndexOnePath(p)
    \/ PhaseOneDone
    \/ \E node \in 1..MaxSegs : IndexOneNode(node)
    \/ IndexDone

SpecIndex == InitIndex /\ [][NextIndex]_vars

(* detect_variants_in_sub_paths as a state machine: one action per step of
   the call, on graphs whose paths are haplotypes of one backbone *)

\* the backbone path: nodes 1..BackboneLen in order
Backbone == [i \in 1..BackboneLen |-> i]

\* the two nodes that are not on the backbone
ExtraNode == BackboneLen + 1

OtherNode == BackboneLen + 2

Edits == {"same", "del", "sub", "sub_other", "ins_before", "ins_after"}

\* the backbone with one edit at its second node
EditNodes(edit) ==
    LET rest == SubSeq(Backbone, 3, BackboneLen)
    IN  CASE edit = "same" -> Backbone
          [] edit = "del" -> <<1>> \o rest
          [] edit = "sub" -> <<1, ExtraNode>> \o rest
          [] edit = "sub_other" -> <<1, OtherNode>> \o rest
          [] edit = "ins_before" -> <<1, ExtraNode, 2>> \o rest
          [] edit = "ins_after" -> <<1, 2, ExtraNode>> \o rest

\* the backbone with its second and third node exchanged: the node order of a
\* haplotype that runs through the two nodes in the other direction
Swapped == <<1, 3, 2>> \o SubSeq(Backbone, 4, BackboneLen)

\* the backbone from its last node to its first: the node order of a
\* haplotype that runs through the graph in the opposite direction
Reversed == [i \in 1..BackboneLen |-> BackboneLen + 1 - i]

\* the node list cut behind its step on node last
CutAt(nodes, last) == SubSeq(nodes, 1, CHOOSE i \in DOMAIN nodes : nodes[i] = last)

\* a haplotype: an edited backbone that ends on a backbone node from 3 on
Haplotypes == {CutAt(EditNodes(e), last) : e \in Edits, last \in 3..BackboneLen}

\* bubbles with the first backbone node as one end, in either order, and the
\* pair of the two nodes off the backbone, which no haplotype holds both of
BubblePool ==
    {<<1, y>> : y \in 3..BackboneLen} \cup {<<y, 1>> : y \in 3..BackboneLen}
    \cup {<<ExtraNode, OtherNode>>}

\* segment maps: "A" for a backbone node other than the edited one, "G" for
\* OtherNode
SiteSegMaps(site_seqs, extra_seqs) ==
    {[n \in 1..OtherNode |->
        IF n = 2 THEN s
        ELSE IF n = ExtraNode THEN x
        ELSE IF n = OtherNode THEN <<"G">>
        ELSE <<"A">>]
       : s \in site_seqs, x \in extra_seqs}

\* the raw paths: the backbone as path "a", then the haplotypes in haps
HaplotypeGraph(haps, orients) ==
    [i \in 1..(Len(haps) + 1) |->
       [path_name |-> PathNames[i],
        steps |-> RawPath(IF i = 1 THEN Backbone ELSE haps[i - 1], orients[i])]]

\* one or two haplotypes; the last path of three may run Backward, and so may
\* the haplotype of reversed node order
HaplotypeGraphs ==
    {HaplotypeGraph(<<b>>, <<"Forward", "Forward">>) : b \in Haplotypes}
    \cup {HaplotypeGraph(<<Swapped>>, <<"Forward", "Forward">>)}
    \cup {HaplotypeGraph(<<Reversed>>, <<"Forward", o>>) : o \in Orientations}
    \cup {HaplotypeGraph(<<b, c>>, <<"Forward", "Forward", o>>)
            : b \in Haplotypes, c \in Haplotypes, o \in Orientations}

InitBubbleSpec ==
    /\ gfa_paths \in HaplotypeGraphs
    /\ segment_map \in SiteSegMaps(SeqPool, {<<"C">>, <<"A", "C">>})
    /\ LET pd == gfa_path_data(segment_map, gfa_paths)
       IN  /\ path_names = pd.path_names
           /\ paths = pd.paths
           /\ pd_status = pd.status
    /\ mapped = EmptyMap
    /\ \E bb \in BubblePool :
         /\ vertices = {bb[1], bb[2]}
         /\ bubble = InitBubble(bb[1], bb[2])
    /\ transposed = EmptyMap
    /\ path_map = bubble_path_indices(paths, vertices)
    /\ idx_status = "done"
    /\ var_config \in BOOLEAN
    /\ ref_path_names \in {NoNames, SomeNames({"a"}), SomeNames({"b"})}
    /\ DiffIdle
    /\ CmdIdle

\* the next step of the call
OrchestratorStep ==
    /\ bubble.status \in {"start", "refs"}
    /\ bubble' = BubbleStep(segment_map, path_names, paths, path_map,
                            var_config, ref_path_names, bubble)
    /\ UNCHANGED <<var_config, ref_path_names>>
    /\ UNCHANGED <<segment_map, diff_vars, pd_vars, idx_vars, cmd_vars>>

NextBubble == OrchestratorStep

SpecBubble == InitBubbleSpec /\ [][NextBubble]_vars

(* gfa2vcf as a state machine: the loads, one action per bubble of the
   parallel loop, the sort with the dedup, and the prints *)

\* the bubble lists of a run: at most MaxBubbles different bubbles, listed
\* from the greatest tuple down
BubbleLists ==
    UNION {{l \in Orderings(S) :
              \A i \in 1..(Len(l) - 1) : LexCmp(l[i], l[i + 1]) = "Greater"}
           : S \in {T \in SUBSET BubblePool : Cardinality(T) <= MaxBubbles}}

\* the graphs of a run: the backbone alone, or with one haplotype, or with
\* two haplotypes of which the second runs to the end of the backbone
CmdGraphs ==
    {HaplotypeGraph(<<>>, <<"Forward">>)}
    \cup {HaplotypeGraph(<<b>>, <<"Forward", "Forward">>) : b \in Haplotypes}
    \cup {HaplotypeGraph(<<b, EditNodes(e)>>, <<"Forward", "Forward", "Forward">>)
            : b \in Haplotypes, e \in Edits}

\* the segment maps of a run: the edited node holds "A" or the empty
\* sequence; the last map has no segment for OtherNode
CmdSegMaps ==
    SiteSegMaps({<<"A">>, <<>>}, {<<"C">>}) \cup {[n \in 1..ExtraNode |-> <<"A">>]}

\* the allow-lists of a run: path "a" for a graph of three paths; none, path
\* "a", or paths "a" and "c" (the second not in the graph) for a smaller graph
AllowLists(n) ==
    IF n <= 2 THEN {NoNames, SomeNames({"a"}), SomeNames({"a", "c"})}
    ELSE {SomeNames({"a"})}

InitCmd ==
    /\ gfa_paths \in CmdGraphs
    /\ segment_map \in CmdSegMaps
    /\ ultrabubbles \in BubbleLists
    /\ var_config = TRUE
    /\ ref_path_names \in AllowLists(Len(gfa_paths))
    /\ bubble = [InitBubble(0, 0) EXCEPT !.status = "idle"]
    /\ mapped = EmptyMap
    /\ path_names = <<>>
    /\ paths = <<>>
    /\ pd_status = "idle"
    /\ batches = EmptyMap
    /\ all_vcf_records = <<>>
    /\ stdout = <<>>
    /\ cmd_status = "start"
    /\ DiffIdle
    /\ IndexIdle

\* load_gfa, load_ultrabubbles or find_ultrabubbles returns an error, which
\* the ? operator returns from gfa2vcf
InputError ==
    /\ cmd_status \in {"start", "path_data"}
    /\ cmd_status' = "error"
    /\ UNCHANGED <<ultrabubbles, batches, all_vcf_records, stdout>>
    /\ UNCHANGED <<segment_map, diff_vars, pd_vars, idx_vars, orch_vars>>

\* the graph is loaded: fewer than two paths panic, else gfa_path_data runs
LoadPathData ==
    /\ cmd_status = "start"
    /\ IF Len(gfa_paths) < 2
       THEN /\ cmd_status' = "panic"
            /\ UNCHANGED <<path_names, paths, pd_status>>
       ELSE LET pd == gfa_path_data(segment_map, gfa_paths)
            IN  /\ path_names' = pd.path_names
                /\ paths' = pd.paths
                /\ pd_status' = pd.status
                /\ cmd_status' = IF pd.status = "panic" THEN "panic" ELSE "path_data"
    /\ UNCHANGED <<gfa_paths, mapped>>
    /\ UNCHANGED <<ultrabubbles, batches, all_vcf_records, stdout>>
    /\ UNCHANGED <<segment_map, diff_vars, idx_vars, orch_vars>>

\* the bubbles are loaded and sorted, and the bubble index is built
LoadBubbles ==
    /\ cmd_status = "path_data"
    /\ ultrabubbles' = SortBubbles(ultrabubbles)
    /\ vertices' = ultrabubble_nodes(ultrabubbles')
    /\ path_map' = bubble_path_indices(paths, vertices')
    /\ idx_status' = "done"
    /\ cmd_status' = "bubbles"
    /\ UNCHANGED <<transposed, batches, all_vcf_records, stdout>>
    /\ UNCHANGED <<segment_map, diff_vars, pd_vars, orch_vars>>

\* a worker runs the closure of the parallel loop on bubble i (0-based): a
\* None result leaves no records, a panic ends the run
ProcessBubble(i) ==
    /\ cmd_status = "bubbles"
    /\ i \in (0..(Len(ultrabubbles) - 1)) \ DOMAIN batches
    /\ LET found == detect_variants_in_sub_paths(segment_map, path_names, paths,
                        path_map, var_config, ref_path_names,
                        ultrabubbles[i + 1][1], ultrabubbles[i + 1][2])
       IN  CASE found.status = "panic" ->
                  /\ cmd_status' = "panic"
                  /\ UNCHANGED batches
             [] found.status = "none" ->
                  /\ batches' = MapInsert(batches, i, <<>>)
                  /\ UNCHANGED cmd_status
             [] found.status = "done" ->
                  /\ \E vcf_records \in variant_vcf_record(found.variants) :
                       batches' = MapInsert(batches, i, vcf_records)
                  /\ UNCHANGED cmd_status
    /\ UNCHANGED <<ultrabubbles, all_vcf_records, stdout>>
    /\ UNCHANGED <<segment_map, diff_vars, pd_vars, idx_vars, orch_vars>>

\* par_extend returns the batches in bubble order; then sort_by and dedup
SortAndDedup ==
    /\ cmd_status = "bubbles"
    /\ DOMAIN batches = 0..(Len(ultrabubbles) - 1)
    /\ all_vcf_records' = SortDedup(Flatten(batches, Len(ultrabubbles)))
    /\ cmd_status' = "sorted"
    /\ UNCHANGED <<ultrabubbles, batches, stdout>>
    /\ UNCHANGED <<segment_map, diff_vars, pd_vars, idx_vars, orch_vars>>

\* (mutant) the header is printed as soon as the bubbles are loaded
PrintHeaderBeforeSort ==
    /\ cmd_status = "bubbles"
    /\ stdout' = Append(stdout, [line |-> "header"])
    /\ cmd_status' = "header"
    /\ UNCHANGED <<ultrabubbles, batches, all_vcf_records>>
    /\ UNCHANGED <<segment_map, diff_vars, pd_vars, idx_vars, orch_vars>>

\* println of the header
PrintHeader ==
    /\ cmd_status = "sorted"
    /\ stdout' = Append(stdout, [line |-> "header"])
    /\ cmd_status' = "header"
    /\ UNCHANGED <<ultrabubbles, batches, all_vcf_records>>
    /\ UNCHANGED <<segment_map, diff_vars, pd_vars, idx_vars, orch_vars>>

\* println of the next record
PrintRecord ==
    /\ cmd_status = "header"
    /\ Len(stdout) - 1 < Len(all_vcf_records)
    /\ stdout' = Append(stdout, [line |-> "record", vcf |-> all_vcf_records[Len(stdout)]])
    /\ UNCHANGED <<ultrabubbles, batches, all_vcf_records, cmd_status>>
    /\ UNCHANGED <<segment_map, diff_vars, pd_vars, idx_vars, orch_vars>>

\* Ok(()) once every record is printed
Return ==
    /\ cmd_status = "header"
    /\ Len(stdout) - 1 = Len(all_vcf_records)
    /\ cmd_status' = "done"
    /\ UNCHANGED <<ultrabubbles, batches, all_vcf_records, stdout>>
    /\ UNCHANGED <<segment_map, diff_vars, pd_vars, idx_vars, orch_vars>>

Next ==
    \/ InputError
    \/ LoadPathData
    \/ LoadBubbles
    \/ \E i \in 0..(MaxBubbles - 1) : ProcessBubble(i)
    \/ SortAndDedup
    \/ PrintHeader
    \/ PrintRecord
    \/ Return

Spec == InitCmd /\ [][Next]_vars

---------------------------------------------------------------------------
(* Properties of the diff walk (specification SpecDiff) *)

NodeAt(path, i) == path[i][1]

OffsetAt(path, i) == path[i][2]

NodeSet(path) == {path[i][1] : i \in DOMAIN path}

SeqAt(path, i) == segment_map[path[i][1]]

WalkEnded == walk.status # "run"

\* reference [A, B, C], query [A, C]: three different nodes with non-empty
\* sequences, the query skipping the interior node B
SkipScenario ==
    /\ Len(ref_path) = 3 /\ Len(query_path) = 2
    /\ NodeAt(query_path, 1) = NodeAt(ref_path, 1)
    /\ NodeAt(query_path, 2) = NodeAt(ref_path, 3)
    /\ Cardinality(NodeSet(ref_path)) = 3
    /\ \A i \in 1..3 : SeqAt(ref_path, i) # <<>>

\* C4: with reference [A, B, C] and query [A, C] the walk returns exactly one
\* entry: key (reference name, offset of B - 1, last byte of A followed by B's
\* sequence) with the variant set {Del(last byte of A)}.
C4_SkippedNodeIsOneDeletion ==
    (SkipScenario /\ WalkEnded) =>
        /\ walk.status = "done"
        /\ walk.variants =
             (VariantKey(ref_name, OffsetAt(ref_path, 2) - 1,
                         <<Last(SeqAt(ref_path, 1))>> \o SeqAt(ref_path, 2))
                :> {Del(<<Last(SeqAt(ref_path, 1))>>)})

\* reference [A, C], query [A, E, C]: three different nodes with non-empty
\* sequences, the query carrying the extra interior node E
ExtraScenario ==
    /\ Len(ref_path) = 2 /\ Len(query_path) = 3
    /\ NodeAt(query_path, 1) = NodeAt(ref_path, 1)
    /\ NodeAt(query_path, 3) = NodeAt(ref_path, 2)
    /\ Cardinality(NodeSet(query_path)) = 3
    /\ \A i \in 1..3 : SeqAt(query_path, i) # <<>>

\* C5: with reference [A, C] and query [A, E, C] the walk returns exactly one
\* entry: key (reference name, offset of C - 1, last byte of A) with the
\* variant set {Ins(last byte of A followed by E's sequence)}.
C5_ExtraNodeIsOneInsertion ==
    (ExtraScenario /\ WalkEnded) =>
        /\ walk.status = "done"
        /\ walk.variants =
             (VariantKey(ref_name, OffsetAt(ref_path, 2) - 1,
                         <<Last(SeqAt(ref_path, 1))>>)
                :> {Ins(<<Last(SeqAt(ref_path, 1))>> \o SeqAt(query_path, 2))})

\* C6: a variant emitted by the aligned-mismatch branch is an Snv only when
\* the reference node's and the query node's sequences are both one byte long;
\* when either is longer than one byte it is Mnp(the full query sequence).
C6_SnvOnlyForTwoSingleBytes ==
    walk.last_op = "mismatch" =>
        \A c \in walk.emitted :
            LET ref_seq == SeqAt(ref_path, walk.ref_ix)
                query_seq == SeqAt(query_path, walk.query_ix)
            IN  /\ c.variant.tag = "Snv" =>
                       (Len(ref_seq) = 1 /\ Len(query_seq) = 1)
                /\ (Len(ref_seq) > 1 \/ Len(query_seq) > 1) =>
                       c.variant = Mnp(query_seq)

\* reference [A, B, C], query [A, D, C]: B and D are different nodes, neither
\* of them the closing node C, each one byte long, the two bytes different
SubstitutionScenario ==
    /\ Len(ref_path) = 3 /\ Len(query_path) = 3
    /\ NodeAt(query_path, 1) = NodeAt(ref_path, 1)
    /\ NodeAt(query_path, 3) = NodeAt(ref_path, 3)
    /\ NodeAt(ref_path, 2) # NodeAt(query_path, 2)
    /\ NodeAt(ref_path, 2) # NodeAt(ref_path, 3)
    /\ NodeAt(query_path, 2) # NodeAt(ref_path, 3)
    /\ Len(SeqAt(ref_path, 2)) = 1 /\ Len(SeqAt(query_path, 2)) = 1
    /\ SeqAt(ref_path, 2) # SeqAt(query_path, 2)

\* the one record the substitution scenario must render
SubstitutionRecord ==
    [chromosome |-> ref_name,
     position   |-> OffsetAt(ref_path, 2),
     reference  |-> SeqAt(ref_path, 2),
     alternate  |-> SeqAt(query_path, 2),
     info       |-> <<"TYPE=", "snv">>]

\* C7: with reference [A, B, C] and query [A, D, C], B and D single-byte nodes
\* with different bytes (A, B, C, D read as the usual distinct nodes of a
\* bubble: D is not B or C, B is not C), the walk returns exactly one entry,
\* key (reference name, offset of B, B's sequence) with the set {Snv(D's
\* byte)}, and the record made of it has alternate D's byte and type snv.
C7_SingleByteSubstitution ==
    (SubstitutionScenario /\ WalkEnded) =>
        LET key == VariantKey(ref_name, OffsetAt(ref_path, 2),
                              SeqAt(ref_path, 2))
        IN  /\ walk.status = "done"
            /\ DOMAIN walk.variants = {key}
            /\ walk.variants[key] = {Snv(SeqAt(query_path, 2)[1])}
            /\ OffsetAt(ref_path, 2) = 1 + Len(SeqAt(ref_path, 1))
            /\ KeyRecords(key, walk.variants[key]) = {SubstitutionRecord}

\* C7 witness: the scenario has been walked to its end and one call was made
C7_Witness ==
    /\ SubstitutionScenario
    /\ walk.status = "done"
    /\ Cardinality(DOMAIN walk.variants) = 1
    /\ Cardinality(NodeSet(ref_path) \cup NodeSet(query_path)) = 4

---------------------------------------------------------------------------
(* Properties of gfa_path_data (specification SpecPathData) *)

\* the summed sequence lengths of the nodes of the first n raw steps
RECURSIVE LengthBefore(_, _, _)
LengthBefore(segs, raw, n) ==
    IF n = 0 THEN 0
    ELSE Len(segs[raw[n][1]]) + LengthBefore(segs, raw, n - 1)

SomePathMissesNode ==
    \E i \in DOMAIN gfa_paths : MissingNode(segment_map, gfa_paths[i].steps)

C9_MissingNodeIsAnError ==
    (SomePathMissesNode /\ pd_status # "mapping") =>
        /\ pd_status = "error"
        /\ paths = <<>>

---------------------------------------------------------------------------
(* Properties of bubble_path_indices (specification SpecIndex) *)

\* the 0-based step indices of path p (0-based) whose node id is n
Occurrences(p, n) == {i - 1 : i \in {j \in DOMAIN paths[p + 1] : paths[p + 1][j][1] = n}}

\* C10: the returned map has an entry (n -> p -> i) for boundary node n and
\* path index p if and only if some step of path p has node id n; the stored i
\* is the largest step index of path p whose node id is n; the map is the same
\* for every scheduling of the two parallel phases.
C10_IndexHoldsLastOccurrence ==
    idx_status = "done" =>
        /\ DOMAIN path_map = vertices
        /\ \A n \in vertices :
             /\ DOMAIN path_map[n] = {p \in 0..(Len(paths) - 1) : Occurrences(p, n) # {}}
             /\ \A p \in DOMAIN path_map[n] : path_map[n][p] = Max(Occurrences(p, n))
        /\ path_map = bubble_path_indices(paths, vertices)

\* C10 witness: the index of two paths is complete, a boundary node occurs
\* twice in one path and is absent from the other
C10_Witness ==
    /\ idx_status = "done"
    /\ Len(paths) = 2
    /\ \E n \in vertices :
         /\ \E p \in DOMAIN path_map[n] : Cardinality(Occurrences(p, n)) > 1
         /\ \E p \in 0..1 : p \notin DOMAIN path_map[n]

---------------------------------------------------------------------------
(* Properties of detect_variants_in_sub_paths (specification SpecBubble) *)

\* the extracted sub-path of the path called name
SubPathOf(name) ==
    LET i == CHOOSE j \in DOMAIN bubble.sub_paths :
                 path_names[bubble.sub_paths[j][1] + 1] = name
    IN  bubble.sub_paths[i][2]

\* the query sub-paths the inner loop hands to the diff walk for reference name
ComparedQueries(name) ==
    {bubble.query_paths[j][2] :
       j \in {i \in DOMAIN bubble.query_paths :
                /\ path_names[bubble.query_paths[i][1] + 1] # name
                /\ ~ignore_path(var_config, sub_path_edge_orient(SubPathOf(name)),
                                sub_path_edge_orient(bubble.query_paths[i][2]))}}

\* the variants the diff walk of reference name against qpath reports under k
ReportedUnder(name, qpath, k) ==
    LET m == detect_variants_against_ref(segment_map, name, SubPathOf(name), qpath).variants
    IN  IF k \in DOMAIN m THEN m[k] ELSE {}

\* the keys some compared query reports for reference name
ReportedKeys(name) ==
    UNION {DOMAIN detect_variants_against_ref(segment_map, name, SubPathOf(name), q).variants
             : q \in ComparedQueries(name)}

\* C1: once every query has been compared with a reference, the set stored
\* under each key of that reference's map is the union, over the compared
\* queries, of the variants the diff walk reports under the key: alternate
\* alleles that different queries give at one key all stay in the set.
C1_RefMapIsUnionOverQueries ==
    \A name \in DOMAIN bubble.variants :
      \A k \in ReportedKeys(name) :
        /\ k \in DOMAIN bubble.variants[name]
        /\ bubble.variants[name][k] =
             UNION {ReportedUnder(name, q, k) : q \in ComparedQueries(name)}

---------------------------------------------------------------------------
(* Properties of gfa2vcf (specification Spec) *)

\* the record list is final
Sorted == cmd_status \in {"sorted", "header", "done"}

\* the maps detect_variants_in_sub_paths returns for the bubbles of the run
BubbleMaps ==
    {detect_variants_in_sub_paths(segment_map, path_names, paths, path_map,
                                  var_config, ref_path_names,
                                  ultrabubbles[i][1], ultrabubbles[i][2]).variants
       : i \in DOMAIN ultrabubbles}

\* the keys reached in some bubble
ReachedKeys == UNION {UNION {DOMAIN m[name] : name \in DOMAIN m} : m \in BubbleMaps}

\* the variants held under key k in some bubble
ObservedAt(k) ==
    UNION {IF k.ref_name \in DOMAIN m /\ k \in DOMAIN m[k.ref_name]
           THEN m[k.ref_name][k] ELSE {} : m \in BubbleMaps}

\* the key a record was made from
KeyOf(record) == VariantKey(record.chromosome, record.position, record.reference)

\* the places of the final list that hold a record of key k
RecordsOf(k) == {i \in DOMAIN all_vcf_records : KeyOf(all_vcf_records[i]) = k}

\* C2: the final record list holds exactly one record for each key reached in
\* some bubble and none for any other key, and the record of a key carries
\* all alternate alleles held under that key in any bubble.
C2_OneRecordPerKeyWithAllAlleles ==
    Sorted =>
      /\ \A k \in ReachedKeys :
           /\ Cardinality(RecordsOf(k)) = 1
           /\ \A i \in RecordsOf(k) :
                all_vcf_records[i].alternate \in
                  {VCFRecord(k, o).alternate : o \in Orderings(ObservedAt(k))}
      /\ \A i \in DOMAIN all_vcf_records : KeyOf(all_vcf_records[i]) \in ReachedKeys

\* C3: after the sort and the dedup no two places of the record list hold
\* equal records, whatever the order of the records of each bubble was.
C3_NoEqualRecordsAfterDedup ==
    Sorted =>
      \A i, j \in DOMAIN all_vcf_records :
        i # j => all_vcf_records[i] # all_vcf_records[j]

---------------------------------------------------------------------------
(* Properties of path_data_sub_paths (specification SpecBubble) *)

\* the extraction has run
Extracted == bubble.status \in {"refs", "done", "panic"}

\* path p (0-based) has an index entry for both boundary nodes of the bubble
HasBothEntries(p) ==
    p \in DOMAIN path_map[bubble.from] /\ p \in DOMAIN path_map[bubble.to]

\* the smaller and the greater of the two index entries of path p
LoIx(p) == Min(path_map[bubble.from][p], path_map[bubble.to][p])

HiIx(p) == Max({path_map[bubble.from][p], path_map[bubble.to][p]})

\* the extracted sub-paths of path p
ExtractedOf(p) ==
    {i \in DOMAIN bubble.sub_paths : bubble.sub_paths[i][1] = p}

\* the sub-path sp is the steps LoIx(p)..HiIx(p) of path p
IsRangeOf(sp, p) ==
    /\ Len(sp) = HiIx(p) - LoIx(p) + 1
    /\ \A i \in DOMAIN sp : sp[i] = paths[p + 1][LoIx(p) + i]

\* C11 as stated: every path with both index entries gets its range back
C11_EveryPathWithBothEntries ==
    Extracted =>
      \A p \in 0..(Len(paths) - 1) :
        IF HasBothEntries(p)
        THEN \E i \in ExtractedOf(p) : IsRangeOf(bubble.sub_paths[i][2], p)
        ELSE ExtractedOf(p) = {}

\* C11 amended: a path with both index entries whose range has at least three
\* steps gets exactly that range back, once; a path that misses an entry or
\* whose range has fewer than three steps gets nothing; the sub-paths come in
\* path order; and the call with (to, from) returns the same list.
C11_RangeOfThreeOrMoreSteps ==
    Extracted =>
      /\ \A p \in 0..(Len(paths) - 1) :
           IF HasBothEntries(p) /\ HiIx(p) - LoIx(p) + 1 >= 3
           THEN /\ Cardinality(ExtractedOf(p)) = 1
                /\ \A i \in ExtractedOf(p) : IsRangeOf(bubble.sub_paths[i][2], p)
           ELSE ExtractedOf(p) = {}
      /\ \A i, j \in DOMAIN bubble.sub_paths :
           i < j => bubble.sub_paths[i][1] < bubble.sub_paths[j][1]
      /\ LET swapped == path_data_sub_paths(paths, path_map, bubble.to, bubble.from)
         IN  swapped.some /\ swapped.sub_paths = bubble.sub_paths

\* a bubble given end first, with a path that yields a sub-path shorter than
\* the path and a path whose range has two steps
C11_Witness ==
    /\ Extracted
    /\ path_map[bubble.from][0] > path_map[bubble.to][0]
    /\ \E i \in DOMAIN bubble.sub_paths :
         Len(bubble.sub_paths[i][2]) < Len(paths[bubble.sub_paths[i][1] + 1])
    /\ \E p \in 0..(Len(paths) - 1) : HasBothEntries(p) /\ HiIx(p) - LoIx(p) + 1 = 2

\* the last step handed a (reference, query) pair to the diff walk
PairCompared == bubble.last_op = "compare"

\* C12: every sub-path that can serve as reference and every query sub-path
\* of detect_variants_in_sub_paths, and both sub-paths of every pair that
\* find_snps_in_sub_paths hands to the diff walk, have at least 3 steps, so
\* sub_path_edge_orient always has a first and a last step to read.
C12_WalkedSubPathsHaveInterior ==
    Extracted =>
      /\ \A i \in DOMAIN bubble.sub_paths : Len(bubble.sub_paths[i][2]) >= 3
      /\ \A j \in DOMAIN bubble.query_paths : Len(bubble.query_paths[j][2]) >= 3
      /\ \A ref_path_ix \in 0..(Len(paths) - 1) :
           \A pair \in find_snps_pairs(paths, path_map, ref_path_ix, bubble.from, bubble.to) :
             Len(pair[1]) >= 3 /\ Len(pair[2]) >= 3

\* a pair was handed to the diff walk in a bubble where some path has both
\* index entries only one step apart
C12_Witness ==
    /\ PairCompared
    /\ \E p \in 0..(Len(paths) - 1) : HasBothEntries(p) /\ HiIx(p) - LoIx(p) + 1 = 2
    /\ \E ref_path_ix \in 0..(Len(paths) - 1) :
         find_snps_pairs(paths, path_map, ref_path_ix, bubble.from, bubble.to) # {}

---------------------------------------------------------------------------
(* Properties of the bubbles of a run (specification Spec) *)

\* the bubble index is built
Indexed == idx_status = "done"

\* the node ids of path p (1-based place in paths)
StepNodes(p) == {paths[p][i][1] : i \in DOMAIN paths[p]}

\* no path holds both boundary nodes of bubble i (1-based place in the list)
Untraversed(i) ==
    \A p \in DOMAIN paths :
      ~(ultrabubbles[i][1] \in StepNodes(p) /\ ultrabubbles[i][2] \in StepNodes(p))

\* the result of detect_variants_in_sub_paths for bubble i under the bubble
\* index indices
BubbleResult(indices, i) ==
    detect_variants_in_sub_paths(segment_map, path_names, paths, indices,
                                 var_config, ref_path_names,
                                 ultrabubbles[i][1], ultrabubbles[i][2])

\* the bubble index of the run that lacks bubble i
IndicesWithout(i) ==
    bubble_path_indices(paths,
        UNION {{ultrabubbles[j][1], ultrabubbles[j][2]} : j \in (DOMAIN ultrabubbles) \ {i}})

\* C13: for a bubble that no path traverses, the extraction gives an empty
\* list, detect_variants_in_sub_paths returns an empty map without a panic,
\* the bubble's batch is empty, and every other bubble's batch is one the run
\* without that bubble can give.
C13_UntraversedBubbleAddsNothing ==
    Indexed =>
      \A i \in DOMAIN ultrabubbles :
        Untraversed(i) =>
          /\ path_data_sub_paths(paths, path_map, ultrabubbles[i][1], ultrabubbles[i][2])
               = [some |-> TRUE, sub_paths |-> <<>>]
          /\ BubbleResult(path_map, i) = [status |-> "done", variants |-> EmptyMap]
          /\ (i - 1) \in DOMAIN batches => batches[i - 1] = <<>>
          /\ \A j \in (DOMAIN ultrabubbles) \ {i} :
               /\ BubbleResult(IndicesWithout(i), j) = BubbleResult(path_map, j)
               /\ ((j - 1) \in DOMAIN batches /\ BubbleResult(path_map, j).status = "done")
                    => batches[j - 1] \in
                         variant_vcf_record(BubbleResult(IndicesWithout(i), j).variants)

\* a finished run with records, one bubble of which has its two nodes on
\* different paths
C13_Witness ==
    /\ cmd_status = "done"
    /\ all_vcf_records # <<>>
    /\ \E i \in DOMAIN ultrabubbles :
         /\ Untraversed(i)
         /\ \E p \in DOMAIN paths : ultrabubbles[i][1] \in StepNodes(p)
         /\ \E p \in DOMAIN paths : ultrabubbles[i][2] \in StepNodes(p)

---------------------------------------------------------------------------
(* Properties of the pairs of detect_variants_in_sub_paths (SpecBubble) *)

\* the reference whose inner loop is running, and the query the last step of
\* the inner loop looked at
CurrentRef == bubble.sub_paths[bubble.ref_i + 1]

LastQuery == bubble.query_paths[bubble.query_j]

NameOf(sub_path) == path_names[sub_path[1] + 1]

\* the edge-orientation pair, read off the steps
EdgeOrients(sub_path) == <<sub_path[2][1][3], sub_path[2][Len(sub_path[2])][3]>>

\* the last step skipped a query
PairSkipped == bubble.last_op = "skip_query"

\* the queries whose pair with the sub-path ref_sub orientation lets through
OrientationAllows(ref_sub) ==
    {j \in DOMAIN bubble.query_paths :
       /\ NameOf(bubble.query_paths[j]) # NameOf(ref_sub)
       /\ var_config => EdgeOrients(bubble.query_paths[j]) = EdgeOrients(ref_sub)}

\* C14: with ignore_inverted_paths set, a pair handed to the diff walk has
\* equal edge-orientation pairs, and every set stored for a reference is the
\* set some query with the reference's edge orientations reports; with the
\* flag unset, a query is skipped only for bearing the reference's name.
C14_InvertedPairsAreSkipped ==
    /\ PairCompared =>
         (var_config => EdgeOrients(CurrentRef) = EdgeOrients(LastQuery))
    /\ PairSkipped =>
         \/ NameOf(CurrentRef) = NameOf(LastQuery)
         \/ var_config /\ EdgeOrients(CurrentRef) # EdgeOrients(LastQuery)
    /\ \A i \in DOMAIN bubble.sub_paths :
         NameOf(bubble.sub_paths[i]) \in DOMAIN bubble.variants =>
           \A k \in DOMAIN bubble.variants[NameOf(bubble.sub_paths[i])] :
             \E j \in OrientationAllows(bubble.sub_paths[i]) :
               LET found == detect_variants_against_ref(segment_map,
                                NameOf(bubble.sub_paths[i]), bubble.sub_paths[i][2],
                                bubble.query_paths[j][2]).variants
               IN  /\ k \in DOMAIN found
                   /\ found[k] = bubble.variants[NameOf(bubble.sub_paths[i])][k]

\* with the flag set, a query of another name was skipped for its orientation,
\* though the diff walk would report a variant for the pair
C14_Witness ==
    /\ PairSkipped
    /\ var_config
    /\ NameOf(CurrentRef) # NameOf(LastQuery)
    /\ detect_variants_against_ref(segment_map, NameOf(CurrentRef), CurrentRef[2],
                                   LastQuery[2]).variants # EmptyMap

\* the names of the paths with an extracted sub-path
SubPathNames == {NameOf(bubble.sub_paths[i]) : i \in DOMAIN bubble.sub_paths}

\* the names that can serve as reference
RefNames ==
    IF ref_path_names.some THEN SubPathNames \cap ref_path_names.names ELSE SubPathNames

\* C15: the names of the returned map, of its keys and of the records made of
\* it are names of the allow-list when there is one; the map has an entry for
\* every path with a sub-path that the allow-list lets through (for every
\* path with a sub-path when there is none); a reference is skipped only for
\* being outside the allow-list; a query is never skipped for being outside
\* it, and never compared with a reference of its own name.
C15_AllowListLimitsReferencesOnly ==
    /\ DOMAIN bubble.variants \subseteq RefNames
    /\ \A name \in DOMAIN bubble.variants :
         \A k \in DOMAIN bubble.variants[name] : k.ref_name = name
    /\ bubble.status = "done" =>
         /\ DOMAIN bubble.variants = RefNames
         /\ \A records \in variant_vcf_record(bubble.variants) :
              \A i \in DOMAIN records : records[i].chromosome \in RefNames
    /\ bubble.last_op = "skip_ref" =>
         /\ ref_path_names.some
         /\ NameOf(bubble.sub_paths[bubble.ref_i]) \notin ref_path_names.names
    /\ PairCompared =>
         /\ NameOf(CurrentRef) # NameOf(LastQuery)
         /\ NameOf(CurrentRef) \in RefNames
    /\ PairSkipped =>
         \/ NameOf(CurrentRef) = NameOf(LastQuery)
         \/ EdgeOrients(CurrentRef) # EdgeOrients(LastQuery)

\* under an allow-list, a query outside it was compared and gave the
\* reference a variant, and another path was skipped as reference before
C15_Witness ==
    /\ PairCompared
    /\ ref_path_names.some
    /\ NameOf(LastQuery) \notin ref_path_names.names
    /\ bubble.ref_map # EmptyMap
    /\ bubble.ref_i > 0
    /\ bubble.variants = EmptyMap

---------------------------------------------------------------------------
(* Properties of a run of gfa2vcf (specification Spec) *)

\* the allow-list names a path that the graph does not have
AllowListNamesAbsentPath ==
    /\ ref_path_names.some
    /\ \E name \in ref_path_names.names :
         \A i \in DOMAIN gfa_paths : gfa_paths[i].path_name # name

\* the record lines printed so far
RecordLines == {i \in DOMAIN stdout : stdout[i].line = "record"}

\* C16: when the allow-list names a path that is not in the graph, no bubble
\* is processed, no record is written and the run does not complete.
C16_AbsentReferenceIsAnError ==
    AllowListNamesAbsentPath =>
      /\ batches = EmptyMap
      /\ RecordLines = {}
      /\ cmd_status # "done"

\* the records printed so far, in the order of their lines
Emitted == [i \in 1..(Len(stdout) - 1) |-> stdout[i + 1].vcf]

\* the records of the batches in bubble order, as they were before the sort
Collected == Flatten(batches, Len(ultrabubbles))

\* C17: the records are emitted in non-decreasing order of chromosome, then
\* position: of two consecutive emitted records the second never has the
\* smaller chromosome, nor the smaller position on the same chromosome, and
\* vcf_cmp of the two is not Greater.
C17_EmittedInVcfOrder ==
    /\ Sorted =>
         \A i \in 1..(Len(all_vcf_records) - 1) :
            vcf_cmp(all_vcf_records[i], all_vcf_records[i + 1]) # "Greater"
    /\ \A i \in 1..(Len(Emitted) - 1) :
         LET r1 == Emitted[i]
             r2 == Emitted[i + 1]
         IN  /\ vcf_cmp(r1, r2) # "Greater"
             /\ \A m, n \in DOMAIN PathNames :
                  PathNames[m] = r1.chromosome /\ PathNames[n] = r2.chromosome => m <= n
             /\ r1.chromosome = r2.chromosome => r1.position <= r2.position
    /\ cmd_status = "done" => Emitted = all_vcf_records

\* a finished run whose collected records were out of order and that printed
\* records of two chromosomes
C17_Witness ==
    /\ cmd_status = "done"
    /\ \E i \in 1..(Len(Collected) - 1) :
         vcf_cmp(Collected[i], Collected[i + 1]) = "Greater"
    /\ \E i, j \in DOMAIN Emitted : Emitted[i].chromosome # Emitted[j].chromosome

---------------------------------------------------------------------------
(* Bubbles whose sub-paths all visit the same nodes (specification
   SpecBubble) *)

\* the node ids of a sub-path, in step order
NodeSeq(sub_path) == [i \in DOMAIN sub_path[2] |-> sub_path[2][i][1]]

\* the sub-paths are extracted and all have one sequence of node ids
AllSubPathsSameNodes ==
    /\ bubble.status \in {"refs", "done"}
    /\ bubble.sub_paths # <<>>
    /\ \A i, j \in DOMAIN bubble.sub_paths :
         NodeSeq(bubble.sub_paths[i]) = NodeSeq(bubble.sub_paths[j])

\* C18: in a bubble whose extracted sub-paths all have the same sequence of
\* node ids no reference path gets a VariantKey, the call does not fail, and
\* variant_vcf_record makes no record of the returned map.
C18_SameNodesNoVariants ==
    AllSubPathsSameNodes =>
      /\ bubble.ref_map = EmptyMap
      /\ \A name \in DOMAIN bubble.variants : DOMAIN bubble.variants[name] = {}
      /\ bubble.status = "done" => variant_vcf_record(bubble.variants) = {<<>>}

\* a finished call on three sub-paths with the same nodes, not all with the
\* same orientation, two of them stored as references
C18_Witness ==
    /\ AllSubPathsSameNodes
    /\ bubble.status = "done"
    /\ Len(bubble.sub_paths) = 3
    /\ \E i, j \in DOMAIN bubble.sub_paths :
         EdgeOrients(bubble.sub_paths[i]) # EdgeOrients(bubble.sub_paths[j])
    /\ Cardinality(DOMAIN bubble.variants) >= 2

---------------------------------------------------------------------------
(* The two directions of the walk over the two sub-paths of a bubble
   (specification SpecBubble) *)

\* the call has returned, the bubble has two sub-paths and every path may be
\* a reference: each of the two was walked against the other
BothDirectionsWalked ==
    /\ bubble.status = "done"
    /\ Len(bubble.sub_paths) = 2
    /\ ~ref_path_names.some

\* the (key, variant) entries stored for a reference whose variant has one
\* of the tags
Entries(name, tags) ==
    LET m == bubble.variants[name]
    IN  UNION {{<<k, v>> : v \in {x \in m[k] : x.tag \in tags}} : k \in DOMAIN m}

\* every aligned-mismatch entry of reference n1 has an entry of reference n2
\* with reference and alternate sequence exchanged
MismatchesMirrored(n1, n2) ==
    \A e \in Entries(n1, {"Snv", "Mnp"}) :
      \E f \in Entries(n2, {"Snv", "Mnp"}) :
        /\ f[1].sequence = e[2].seq
        /\ f[2].seq = e[1].sequence

\* C19: for the two sub-paths A (path a) and B (path b) of a bubble, the walk
\* with A as reference and the walk with B as reference give keys that carry
\* the name of their reference, as many deletions in one direction as
\* insertions in the other, and aligned mismatches of the same two nodes with
\* reference and alternate sequence exchanged.
C19_DirectionsAreInverse ==
    BothDirectionsWalked =>
      LET a == NameOf(bubble.sub_paths[1])
          b == NameOf(bubble.sub_paths[2])
      IN  /\ \A k \in DOMAIN bubble.variants[a] : k.ref_name = a
          /\ \A k \in DOMAIN bubble.variants[b] : k.ref_name = b
          /\ Cardinality(Entries(a, {"Del"})) = Cardinality(Entries(b, {"Ins"}))
          /\ Cardinality(Entries(b, {"Del"})) = Cardinality(Entries(a, {"Ins"}))
          /\ MismatchesMirrored(a, b)
          /\ MismatchesMirrored(b, a)

\* the orders in which the batches of n bubbles could be appended
AppendOrders(n) ==
    {p \in [1..n -> 0..(n - 1)] : \A i, j \in 1..n : p[i] = p[j] => i = j}

\* the batches chained in the order p
RECURSIVE FlattenInOrder(_, _, _)
FlattenInOrder(batch_map, p, n) ==
    IF n = 0 THEN <<>>
    ELSE FlattenInOrder(batch_map, p, n - 1) \o batch_map[p[n]]

AllBubblesProcessed == DOMAIN batches = 0..(Len(ultrabubbles) - 1)

\* C21: nothing is written before every bubble is processed and the record
\* list is sorted and deduplicated: what is written is the header followed by
\* the first records of that list; a run that ended in an input error or a
\* panic has written nothing.
C21_NoOutputBeforeSortNorOnError ==
    /\ stdout # <<>> =>
         /\ cmd_status \in {"header", "done"}
         /\ AllBubblesProcessed
         /\ all_vcf_records = SortDedup(Collected)
         /\ stdout[1].line = "header"
         /\ Len(Emitted) <= Len(all_vcf_records)
         /\ \A i \in DOMAIN Emitted :
              /\ stdout[i + 1].line = "record"
              /\ Emitted[i] = all_vcf_records[i]
    /\ cmd_status \in {"start", "path_data", "bubbles", "sorted", "error", "panic"} =>
         stdout = <<>>

\* the header and a record are written in a run of two bubbles that both
\* gave records
C21_Witness ==
    /\ cmd_status = "header"
    /\ Len(stdout) >= 2
    /\ Len(ultrabubbles) = 2
    /\ \A i \in DOMAIN batches : batches[i] # <<>>

\* the bubbles (1-based places of the sorted list) whose processing fails
FailingBubbles ==
    {i \in DOMAIN ultrabubbles : BubbleResult(path_map, i).status = "panic"}

\* C22: a failure while one bubble is processed does not end the run: once
\* the bubbles are loaded the run never stops in a panic, a failing bubble
\* leaves an empty batch, and a finished run has written what the other
\* bubbles gave.
C22_BubbleFailureIsIsolated ==
    idx_status = "done" =>
      /\ cmd_status # "panic"
      /\ \A i \in FailingBubbles : (i - 1) \in DOMAIN batches => batches[i - 1] = <<>>
      /\ cmd_status = "done" => Emitted = SortDedup(Collected)

---------------------------------------------------------------------------
(* The handler-based walk against the hand-written walk (specification
   SpecDiff) *)

\* the hand-written walk has ended
WalkOver == walk.status \in {"done", "panic"}

\* C23: on the same segment map, reference name, reference sub-path and
\* query sub-path detect_variants_against_ref_ returns the map that the
\* hand-written walk has when it ends, and fails where that walk fails.
C23_HandlerWalkEqualsHandWrittenWalk ==
    WalkOver =>
      detect_variants_against_ref_(segment_map, ref_name, ref_path, query_path)
        = [status |-> walk.status, variants |-> walk.variants]

\* a walk that ended with a deletion or an insertion and one more call
C23_Witness ==
    /\ walk.status = "done"
    /\ Cardinality(DOMAIN walk.variants) >= 2
    /\ \E k \in DOMAIN walk.variants : \E v \in walk.variants[k] : v.tag = "Ins"
    /\ detect_variants_against_ref_(segment_map, ref_name, ref_path,
                                    query_path).variants = walk.variants

---------------------------------------------------------------------------
(* The boundary nodes of the pairs handed to the walk (specification
   SpecBubble) *)

\* the node of the first and of the last step of a sub-path
FirstNode(sub_path) == sub_path[2][1][1]

LastNode(sub_path) == sub_path[2][Len(sub_path[2])][1]

\* C24: the reference sub-path and the query sub-path of every pair handed to
\* the walk have the same node at their first step and the same node at
\* their last step.
C24_PairsAgreeOnBoundaryNodes ==
    PairCompared =>
      /\ FirstNode(CurrentRef) = FirstNode(LastQuery)
      /\ LastNode(CurrentRef) = LastNode(LastQuery)

---------------------------------------------------------------------------
(* The steps of the diff walk (specification SpecDiff). i and j are the
   0-based indices of the walk, so step i of a path is element i + 1 *)

\* the walk is at (i, j) on different nodes and neither index is the last
MidWalkOnDifferentNodes ==
    /\ walk.status = "run"
    /\ walk.ref_ix + 1 < Len(ref_path)
    /\ walk.query_ix + 1 < Len(query_path)
    /\ NodeAt(ref_path, walk.ref_ix + 1) # NodeAt(query_path, walk.query_ix + 1)

\* ref[i+1] is the node of query[j]
DeletionLookahead ==
    NodeAt(ref_path, walk.ref_ix + 2) = NodeAt(query_path, walk.query_ix + 1)

\* query[j+1] is the node of ref[i]
InsertionLookahead ==
    NodeAt(query_path, walk.query_ix + 2) = NodeAt(ref_path, walk.ref_ix + 1)

\* the sequence of ref[i-1], of ref[0] when i = 0
PriorSeq == SeqAt(ref_path, IF walk.ref_ix = 0 THEN 1 ELSE walk.ref_ix)

\* the map m with variant v added to the set under key k
WithCall(m, k, v) ==
    [x \in DOMAIN m \cup {k} |->
       (IF x \in DOMAIN m THEN m[x] ELSE {}) \cup (IF x = k THEN {v} ELSE {})]

\* the step from (i, j) that the claim calls a deletion
DeletionStep ==
    LET prior == PriorSeq[Len(PriorSeq)]
        key == [ref_name |-> ref_name,
                pos |-> OffsetAt(ref_path, walk.ref_ix + 1) - 1,
                sequence |-> <<prior>> \o SeqAt(ref_path, walk.ref_ix + 1)]
    IN  /\ walk'.status = "run"
        /\ walk'.ref_ix = walk.ref_ix + 1
        /\ walk'.query_ix = walk.query_ix
        /\ walk'.variants = WithCall(walk.variants, key, [tag |-> "Del", seq |-> <<prior>>])

InsertionStep ==
    LET prior == PriorSeq[Len(PriorSeq)]
        key == [ref_name |-> ref_name,
                pos |-> OffsetAt(ref_path, walk.ref_ix + 1) - 1,
                sequence |-> <<prior>>]
        inserted == <<prior>> \o SeqAt(query_path, walk.query_ix + 1)
    IN  /\ walk'.status = "run"
        /\ walk'.ref_ix = walk.ref_ix
        /\ walk'.query_ix = walk.query_ix + 1
        /\ walk'.variants = WithCall(walk.variants, key, [tag |-> "Ins", seq |-> inserted])

DifferentNodesAtAnEnd ==
    /\ walk.status = "run"
    /\ walk.ref_ix < Len(ref_path)
    /\ walk.query_ix < Len(query_path)
    /\ NodeAt(ref_path, walk.ref_ix + 1) # NodeAt(query_path, walk.query_ix + 1)
    /\ \/ walk.ref_ix = Len(ref_path) - 1
       \/ walk.query_ix = Len(query_path) - 1

\* the walk stops where it is and the map it has is the map both walks return
StopsAtOnce ==
    /\ walk'.status = "done"
    /\ walk'.variants = walk.variants
    /\ walk'.emitted = {}
    /\ walk'.ref_ix = walk.ref_ix /\ walk'.query_ix = walk.query_ix
    /\ detect_variants_against_ref(segment_map, ref_name, ref_path,
                                   query_path).variants = walk.variants
    /\ detect_variants_against_ref_(segment_map, ref_name, ref_path,
                                    query_path).variants = walk.variants

\* C27: at (i, j) on different nodes with i the last index of the reference
\* or j the last index of the query the walk stops at once: the step makes
\* no call, no step follows it, and the returned map is the map of the calls
\* made before.
C27_StopsOnDifferentNodesAtAnEnd ==
    [][/\ DifferentNodesAtAnEnd => StopsAtOnce
       /\ walk.status = "done" => UNCHANGED walk]_vars

\* the walk stopped at the last query step with reference steps left over
\* and a call already made
C27_Witness ==
    /\ walk.last_op = "end_break"
    /\ walk.variants # EmptyMap
    /\ walk.query_ix = Len(query_path) - 1
    /\ walk.ref_ix + 1 < Len(ref_path)

\* the iterations the loop of detect_variants_against_ref_with makes from walk
\* state w, counted up to fuel
RECURSIVE IterationsFromWith(_, _)
IterationsFromWith(w, fuel) ==
    IF w.status # "run" \/ fuel = 0 THEN 0
    ELSE 1 + IterationsFromWith(WalkStepWith(segment_map, ref_name, ref_path,
                                             query_path, w), fuel - 1)

TotalLen == Len(ref_path) + Len(query_path)

\* the indices stay within the lengths; an iteration that goes on starts with
\* both indices inside the sub-paths, so that the walk, whose iterations each
\* stop or raise ref_ix + query_ix, makes at most len(ref) + len(query) of
\* them; the handler-based loop, which no action steps through, is counted
WalkIsBounded ==
    /\ walk.ref_ix \in 0..Len(ref_path)
    /\ walk.query_ix \in 0..Len(query_path)
    /\ (walk.status = "run" /\ walk.last_op # "start") =>
         walk.ref_ix + walk.query_ix >= 1
    /\ walk.last_op = "start" =>
         IterationsFromWith(InitWalkWith, TotalLen + 2) <= TotalLen

\* an iteration stops the walk, or moves on without moving back; it reads
\* ref[i] and query[j], and ref[i+1] and query[j+1], only inside the sub-paths
IterationMakesProgress ==
    /\ \/ walk'.status # "run"
       \/ /\ walk'.ref_ix + walk'.query_ix >= walk.ref_ix + walk.query_ix + 1
          /\ walk'.ref_ix >= walk.ref_ix
          /\ walk'.query_ix >= walk.query_ix
    /\ walk'.last_op # "exit" =>
         walk.ref_ix < Len(ref_path) /\ walk.query_ix < Len(query_path)
    /\ walk'.last_op \in {"deletion", "insertion", "mismatch", "same_seq"} =>
         walk.ref_ix + 1 < Len(ref_path) /\ walk.query_ix + 1 < Len(query_path)

\* C28: the walk terminates: every iteration stops it or increases ref index
\* + query index by at least 1 with neither index decreasing, it makes at
\* most len(ref) + len(query) iterations, and it reads no step outside
\* either sub-path.
C28_WalkTerminatesInBounds ==
    /\ []WalkIsBounded
    /\ [][IterationMakesProgress]_vars

\* a walk of two three-step sub-paths that took a one-index step and ended
\* by running off the reference
C28_Witness ==
    /\ walk.last_op = "exit"
    /\ Len(ref_path) = 3 /\ Len(query_path) = 3
    /\ walk.ref_ix = 3
    /\ walk.query_ix = 2

---------------------------------------------------------------------------
(* The dedup of the query sub-paths (specification SpecBubble) *)

\* the sub-paths are extracted
SubPathsExtracted == bubble.status \in {"refs", "done"}

\* the sub-paths sorted as the queries are, none removed
SortedSubPaths ==
    LET keyed == [i \in DOMAIN bubble.sub_paths |->
                    <<StepsKey(bubble.sub_paths[i][2]), bubble.sub_paths[i]>>]
        sorted == SortByKey(keyed)
    IN  [i \in DOMAIN sorted |-> sorted[i][2]]

\* the call run to its end with queries as its query list
ResultWithQueries(queries) ==
    LET extracted == BubbleStep(segment_map, path_names, paths, path_map, var_config,
                                ref_path_names, InitBubble(bubble.from, bubble.to))
        b == RunBubble(segment_map, path_names, paths, path_map, var_config,
                       ref_path_names, [extracted EXCEPT !.query_paths = queries])
    IN  [status |-> b.status, variants |-> b.variants]

\* the step sequences of a list of sub-paths
StepSeqs(sub_paths) == {sub_paths[i][2] : i \in DOMAIN sub_paths}

\* C29: the dedup of the queries does not change the result: the call returns
\* what it returns with every sub-path kept in the sorted query list; no two
\* retained queries are equal as step sequences, and every step sequence
\* among the sub-paths is one of the retained queries.
C29_DedupKeepsTheResult ==
    SubPathsExtracted =>
      /\ \A i, j \in DOMAIN bubble.query_paths :
           bubble.query_paths[i][2] = bubble.query_paths[j][2] => i = j
      /\ StepSeqs(bubble.query_paths) = StepSeqs(bubble.sub_paths)
      /\ bubble.last_op = "extract" =>
           ResultWithQueries(SortedSubPaths) =
             detect_variants_in_sub_paths(segment_map, path_names, paths, path_map,
                                          var_config, ref_path_names,
                                          bubble.from, bubble.to)
      /\ bubble.status = "done" =>
           ResultWithQueries(SortedSubPaths) =
             [status |-> "done", variants |-> bubble.variants]

\* a finished call that found variants with two equal sub-paths that are not
\* neighbours in path order, one of them removed from the queries
C29_Witness ==
    /\ bubble.status = "done"
    /\ Len(bubble.sub_paths) = 3
    /\ Len(bubble.query_paths) = 2
    /\ bubble.sub_paths[1][2] = bubble.sub_paths[3][2]
    /\ \E name \in DOMAIN bubble.variants : bubble.variants[name] # EmptyMap

\* the walk is in the aligned branch: different nodes, neither index last,
\* neither lookahead holds
AlignedBranch ==
    /\ MidWalkOnDifferentNodes
    /\ ~DeletionLookahead
    /\ ~InsertionLookahead

\* the sequences of ref[i] and query[j]
RefSeqHere == SeqAt(ref_path, walk.ref_ix + 1)

QuerySeqHere == SeqAt(query_path, walk.query_ix + 1)

\* query[j]'s sequence, and its last byte where it has one
QueryAlleles ==
    {QuerySeqHere} \cup (IF QuerySeqHere = <<>> THEN {} ELSE {<<Last(QuerySeqHere)>>})

\* both indices advance by one
BothAdvance ==
    /\ walk'.status = "run"
    /\ walk'.ref_ix = walk.ref_ix + 1
    /\ walk'.query_ix = walk.query_ix + 1

\* the step of the aligned branch: a call under (reference name, offset of
\* ref[i], ref[i]'s sequence) if and only if the two sequences differ
AlignedStep ==
    LET key == [ref_name |-> ref_name, pos |-> OffsetAt(ref_path, walk.ref_ix + 1),
                sequence |-> RefSeqHere]
    IN  /\ BothAdvance
        /\ RefSeqHere = QuerySeqHere =>
             /\ walk'.emitted = {}
             /\ walk'.variants = walk.variants
        /\ RefSeqHere # QuerySeqHere =>
             /\ walk'.emitted # {}
             /\ \E tag \in {"Snv", "Mnp"}, alt \in QueryAlleles :
                  walk'.variants = WithCall(walk.variants, key, [tag |-> tag, seq |-> alt])

\* the steps of a path with the orientations o
Reoriented(path, o) == [i \in DOMAIN path |-> <<path[i][1], path[i][2], o[i]>>]

\* the result of the walk is the same for every orientation of every step
SameForEveryOrientation ==
    \A ro \in [DOMAIN ref_path -> Orientations], qo \in [DOMAIN query_path -> Orientations] :
      detect_variants_against_ref(segment_map, ref_name, Reoriented(ref_path, ro),
                                  Reoriented(query_path, qo))
        = [status |-> walk.status, variants |-> walk.variants]

\* the orientations are assigned on sub-paths of up to MaxOrientedLen steps
\* together
ShortWalkEnded == WalkEnded /\ TotalLen <= MaxOrientedLen

=============================================================================
